---- MODULE Spec2Model ----
(***************************************************************************)
(* A model of the Camel Up rules engine (src/src/game) and of the          *)
(* probability engine that replays it (src/src/probability/calculator.py). *)
(*                                                                         *)
(* Spaces are numbered as in the source: stacks is a tuple whose Python    *)
(* index is the space number, so space s is element s + 1 of the TLA+      *)
(* sequence.  Heights inside a stack are 0-based as in the source.         *)
(***************************************************************************)
EXTENDS Integers, Sequences, FiniteSets, TLC

\* ------------------------------------------------------------------------
\* camel.py: colours and groups
\* ------------------------------------------------------------------------
RACING_CAMELS == {"blue", "green", "yellow", "red", "purple"}

CRAZY_CAMELS == {"white", "black"}

ALL_CAMELS == RACING_CAMELS \cup CRAZY_CAMELS

is_racing_camel(c) == c \in RACING_CAMELS

is_crazy_camel(c) == c \in CRAZY_CAMELS

\* Python's None where an index, a space or a player is expected.
None == -1

\* Python's None where a (space, height) pair is expected.
NoPos == << >>

\* ------------------------------------------------------------------------
\* board.py / betting.py / dice.py constants
\* ------------------------------------------------------------------------
TRACK_LENGTH == 16

FINISH_LINE == 17

\* CamelPositions.create_empty(num_spaces=20): spaces 0..19
NUM_SPACES == 20

DICE_FACES == {1, 2, 3}

TICKET_VALUES == <<5, 3, 2, 2>>

OVERALL_PAYOUTS == <<8, 5, 3, 2, 1, 1, 1, 1>>

OVERALL_WRONG_PAYOUT == -1

LEG_SECOND_PLACE_PAYOUT == 1

LEG_OTHER_PLACE_PAYOUT == -1

START_COINS == 3

\* ------------------------------------------------------------------------
\* Sequence helpers
\* ------------------------------------------------------------------------
Max2(a, b) == IF a >= b THEN a ELSE b

Min2(a, b) == IF a <= b THEN a ELSE b

InSeq(x, s) == \E i \in 1..Len(s) : s[i] = x

Count(x, s) == Cardinality({i \in 1..Len(s) : s[i] = x})

\* F applied to the value of v, with v evaluated once
Let1(v, F(_)) == CHOOSE r \in {F(x) : x \in {v}} : TRUE

\* ------------------------------------------------------------------------
\* camel.py: CamelStack (a tuple of camels, bottom first)
\* ------------------------------------------------------------------------
\* CamelStack.position_of: index of the first occurrence, None when absent
position_of(stack, camel) ==
    IF InSeq(camel, stack)
    THEN (CHOOSE i \in 1..Len(stack) :
              stack[i] = camel /\ \A j \in 1..(i - 1) : stack[j] # camel) - 1
    ELSE None

\* CamelStack.remove_camels_from: <<remaining, removed>>
remove_camels_from(stack, camel) ==
    LET pos == position_of(stack, camel)
    IN  IF pos = None THEN <<stack, << >> >>
        ELSE <<SubSeq(stack, 1, pos), SubSeq(stack, pos + 1, Len(stack))>>

\* CamelStack.get_camels_above (the camel itself included)
get_camels_above(stack, camel) ==
    LET pos == position_of(stack, camel)
    IN  IF pos = None THEN << >> ELSE SubSeq(stack, pos + 1, Len(stack))

add_on_top(stack, other) == stack \o other

add_underneath(stack, other) == other \o stack

\* ------------------------------------------------------------------------
\* camel.py: CamelPositions (stacks: tuple indexed by space number)
\* ------------------------------------------------------------------------
EmptyPositions(n) == [i \in 1..n |-> << >>]

\* CamelPositions.get_stack
get_stack(stacks, space) ==
    IF 0 <= space /\ space < Len(stacks) THEN stacks[space + 1] ELSE << >>

\* CamelPositions.find_camel: <<space, height>> of the first stack, scanning
\* spaces upwards, that holds the camel; None when no stack holds it
find_camel(stacks, camel) ==
    Let1({s \in 0..(Len(stacks) - 1) : InSeq(camel, stacks[s + 1])},
         LAMBDA holding :
             IF holding = {} THEN NoPos
             ELSE Let1(CHOOSE s \in holding : \A t \in holding : s <= t,
                       LAMBDA sp : <<sp, position_of(stacks[sp + 1], camel)>>))

\* CamelPositions.get_camel_space
get_camel_space(stacks, camel) ==
    LET r == find_camel(stacks, camel) IN IF r = NoPos THEN None ELSE r[1]

\* list assignment new_stacks[space] = stack after the "extend if needed" loop
SetStack(stacks, space, stack) ==
    LET n == Len(stacks)
        padded == IF space < n THEN stacks
                  ELSE stacks \o [i \in 1..(space + 1 - n) |-> << >>]
    IN  SubSeq(padded, 1, space) \o <<stack>>
        \o SubSeq(padded, space + 2, Len(padded))

\* CamelPositions.place_camel (space is in range at every call site)
place_camel(stacks, camel, space) ==
    SetStack(stacks, space, add_on_top(stacks[space + 1], <<camel>>))

\* CamelPositions.move_camel, lines 215-255: the camel stands on current_space
MoveFrom(stacks, camel, current_space, spaces, place_underneath) ==
    LET raw == current_space + spaces
        new_space == IF raw < 1 THEN 1 ELSE raw
        origin_stack == stacks[current_space + 1]
        split == remove_camels_from(origin_stack, camel)
        remaining_at_origin == split[1]
        moving_stack == split[2]
        dest_stack == IF new_space < Len(stacks)
                      THEN stacks[new_space + 1] ELSE << >>
        new_dest_stack == IF place_underneath
                          THEN add_underneath(dest_stack, moving_stack)
                          ELSE add_on_top(dest_stack, moving_stack)
    IN  \* new_stacks[current_space] is written first, new_stacks[new_space]
        \* second: when both are the same space the second write wins
        Let1(SetStack(stacks, current_space, remaining_at_origin),
             LAMBDA st : SetStack(st, new_space, new_dest_stack))

\* CamelPositions.move_camel
CamelPositions_move_camel(stacks, camel, spaces, place_underneath) ==
    Let1(find_camel(stacks, camel),
         LAMBDA pos :
             IF pos = NoPos
             THEN place_camel(stacks, camel, Max2(1, spaces))
             ELSE MoveFrom(stacks, camel, pos[1], spaces, place_underneath))

\* CamelPositions.get_ranking: racing camels by space descending, then by
\* height descending (the sorted list of (-space, -height, camel) triples)
RECURSIVE RacingTopDown(_)
RacingTopDown(stack) ==
    IF stack = << >> THEN << >>
    ELSE LET top == stack[Len(stack)]
             rest == RacingTopDown(SubSeq(stack, 1, Len(stack) - 1))
         IN  IF is_racing_camel(top) THEN <<top>> \o rest ELSE rest

RECURSIVE RankingFrom(_, _)
RankingFrom(stacks, n) ==
    IF n = 0 THEN << >>
    ELSE RacingTopDown(stacks[n]) \o RankingFrom(stacks, n - 1)

get_ranking(stacks) == RankingFrom(stacks, Len(stacks))

\* CamelPositions.is_camel_finished
is_camel_finished(stacks, camel, finish_line) ==
    LET space == get_camel_space(stacks, camel)
    IN  space # None /\ space >= finish_line

\* CamelPositions.any_camel_finished
any_camel_finished(stacks, finish_line) ==
    \E camel \in RACING_CAMELS : is_camel_finished(stacks, camel, finish_line)

\* CamelPositions.has_racing_camels_on_back
has_racing_camels_on_back(stacks, crazy_camel) ==
    IF ~is_crazy_camel(crazy_camel) THEN FALSE
    ELSE LET pos == find_camel(stacks, crazy_camel)
         IN  IF pos = NoPos THEN FALSE
             ELSE LET camels_above ==
                          get_camels_above(get_stack(stacks, pos[1]), crazy_camel)
                  IN  \E i \in 1..Len(camels_above) :
                          /\ camels_above[i] # crazy_camel
                          /\ is_racing_camel(camels_above[i])

\* a variant of get_crazy_camel_to_move without rule 1 (lines 337-341)
get_crazy_camel_to_move_unranked(stacks, grey_die_camel) ==
    LET white_pos == find_camel(stacks, "white")
        black_pos == find_camel(stacks, "black")
    IN  IF white_pos # NoPos /\ black_pos # NoPos /\ white_pos[1] = black_pos[1]
        THEN LET stack == get_stack(stacks, white_pos[1])
                 white_height == position_of(stack, "white")
                 black_height == position_of(stack, "black")
                 has_racers_between ==
                     \E h \in (Min2(white_height, black_height) + 1)
                                ..(Max2(white_height, black_height) - 1) :
                         is_racing_camel(stack[h + 1])
             IN  IF ~has_racers_between
                 THEN (IF white_height > black_height THEN "white" ELSE "black")
                 ELSE grey_die_camel
        ELSE grey_die_camel

\* a variant of get_crazy_camel_to_move whose rule 2 moves the lower camel
get_crazy_camel_to_move_lower(stacks, grey_die_camel) ==
    LET white_has_racers == has_racing_camels_on_back(stacks, "white")
        black_has_racers == has_racing_camels_on_back(stacks, "black")
        white_pos == find_camel(stacks, "white")
        black_pos == find_camel(stacks, "black")
    IN  IF white_has_racers /\ ~black_has_racers THEN "white"
        ELSE IF black_has_racers /\ ~white_has_racers THEN "black"
        ELSE IF white_pos # NoPos /\ black_pos # NoPos /\ white_pos[1] = black_pos[1]
        THEN LET stack == get_stack(stacks, white_pos[1])
                 white_height == position_of(stack, "white")
                 black_height == position_of(stack, "black")
                 has_racers_between ==
                     \E h \in (Min2(white_height, black_height) + 1)
                                ..(Max2(white_height, black_height) - 1) :
                         is_racing_camel(stack[h + 1])
             IN  IF ~has_racers_between
                 THEN (IF white_height > black_height THEN "black" ELSE "white")
                 ELSE grey_die_camel
        ELSE grey_die_camel

\* CamelPositions.get_crazy_camel_to_move
get_crazy_camel_to_move(stacks, grey_die_camel) ==
    LET white_has_racers == has_racing_camels_on_back(stacks, "white")
        black_has_racers == has_racing_camels_on_back(stacks, "black")
        white_pos == find_camel(stacks, "white")
        black_pos == find_camel(stacks, "black")
    IN  IF white_has_racers /\ ~black_has_racers THEN "white"
        ELSE IF black_has_racers /\ ~white_has_racers THEN "black"
        ELSE IF white_pos # NoPos /\ black_pos # NoPos /\ white_pos[1] = black_pos[1]
        THEN LET stack == get_stack(stacks, white_pos[1])
                 white_height == position_of(stack, "white")
                 black_height == position_of(stack, "black")
                 lower_height == Min2(white_height, black_height)
                 upper_height == Max2(white_height, black_height)
                 has_racers_between ==
                     \E h \in (lower_height + 1)..(upper_height - 1) :
                         is_racing_camel(stack[h + 1])
             IN  IF ~has_racers_between
                 THEN (IF white_height > black_height THEN "white" ELSE "black")
                 ELSE grey_die_camel
        ELSE grey_die_camel

\* ------------------------------------------------------------------------
\* board.py: Board = camel positions + spectator tiles (dict space -> tile)
\* ------------------------------------------------------------------------
SpectatorTile(owner, is_cheering) == [owner |-> owner, is_cheering |-> is_cheering]

\* a variant of movement_modifier with the two signs exchanged
movement_modifier_swapped(tile) == IF tile.is_cheering THEN -1 ELSE 1

\* SpectatorTile.movement_modifier
movement_modifier(tile) == IF tile.is_cheering THEN 1 ELSE -1

\* SpectatorTile.place_underneath
tile_place_underneath(tile) == ~tile.is_cheering

MkBoard(positions, tiles) == [camel_positions |-> positions, spectator_tiles |-> tiles]

NoTiles == [s \in {} |-> SpectatorTile(0, TRUE)]

\* Board.get_stack_at
get_stack_at(board, space) == get_stack(board.camel_positions, space)

\* Python's None where a tile is expected.
NoTile == [owner |-> None, is_cheering |-> FALSE]

\* Board.get_spectator_tile
get_spectator_tile(board, space) ==
    IF space \in DOMAIN board.spectator_tiles
    THEN board.spectator_tiles[space] ELSE NoTile

\* a variant of can_place_spectator_tile without the checks of the two
\* neighbouring spaces (board.py:90-93)
can_place_spectator_tile_crowded(board, space, player) ==
    LET tiles == board.spectator_tiles
        other(s) == s \in DOMAIN tiles /\ tiles[s].owner # player
    IN  /\ ~(space < 2 \/ space > TRACK_LENGTH)
        /\ get_stack_at(board, space) = << >>
        /\ ~other(space)

\* Board.can_place_spectator_tile
can_place_spectator_tile(board, space, player) ==
    LET tiles == board.spectator_tiles
        other(s) == s \in DOMAIN tiles /\ tiles[s].owner # player
    IN  /\ ~(space < 2 \/ space > TRACK_LENGTH)
        /\ get_stack_at(board, space) = << >>
        /\ ~other(space)
        /\ ~other(space - 1)
        /\ ~other(space + 1)

\* a variant of place_spectator_tile that leaves the player's previous tile
\* on the board
place_spectator_tile_kept(board, space, player, is_cheering) ==
    LET tiles == board.spectator_tiles
    IN  MkBoard(board.camel_positions,
                [s \in DOMAIN tiles \cup {space} |->
                    IF s = space THEN SpectatorTile(player, is_cheering)
                    ELSE tiles[s]])

\* Board.place_spectator_tile; the caller has checked can_place_spectator_tile
place_spectator_tile(board, space, player, is_cheering) ==
    LET tiles == board.spectator_tiles
        kept == {s \in DOMAIN tiles : tiles[s].owner # player}
    IN  MkBoard(board.camel_positions,
                [s \in kept \cup {space} |->
                    IF s = space THEN SpectatorTile(player, is_cheering)
                    ELSE tiles[s]])

\* a variant of Board.move_camel in which neither board.py:164 nor
\* camel.py:221 keeps the destination on space 1 or beyond
BoardMoveFrom_unfloored(board, camel, current_pos, spaces) ==
    LET raw_target == current_pos + spaces
        tile == get_spectator_tile(board, raw_target)
        adjusted == IF tile # NoTile THEN raw_target + movement_modifier(tile)
                    ELSE raw_target
        tile_owner == IF tile # NoTile THEN tile.owner ELSE None
        place_underneath == IF tile # NoTile THEN tile_place_underneath(tile)
                            ELSE FALSE
        target_space == IF adjusted < 0 THEN 0 ELSE adjusted
        stacks == board.camel_positions
        split == remove_camels_from(stacks[current_pos + 1], camel)
        dest_stack == get_stack(stacks, target_space)
        new_dest_stack == IF place_underneath
                          THEN add_underneath(dest_stack, split[2])
                          ELSE add_on_top(dest_stack, split[2])
    IN  <<MkBoard(Let1(SetStack(stacks, current_pos, split[1]),
                       LAMBDA st : SetStack(st, target_space, new_dest_stack)),
                  board.spectator_tiles),
          tile_owner>>

\* Board.move_camel, lines 148-179: the camel stands on current_pos
BoardMoveFrom(board, camel, current_pos, spaces) ==
    LET raw_target == current_pos + spaces
        tile == get_spectator_tile(board, raw_target)
        adjusted == IF tile # NoTile THEN raw_target + movement_modifier(tile)
                    ELSE raw_target
        tile_owner == IF tile # NoTile THEN tile.owner ELSE None
        place_underneath == IF tile # NoTile THEN tile_place_underneath(tile)
                            ELSE FALSE
        target_space == IF adjusted < 1 THEN 1 ELSE adjusted
        new_positions == CamelPositions_move_camel(
                             board.camel_positions, camel,
                             target_space - current_pos, place_underneath)
    IN  <<MkBoard(new_positions, board.spectator_tiles), tile_owner>>

\* a variant of Board.move_camel that never names the owner of a tile
Board_move_camel_unowned(board, camel, spaces) ==
    Let1(get_camel_space(board.camel_positions, camel),
         LAMBDA current_pos :
             IF current_pos = None THEN <<board, None>>
             ELSE <<BoardMoveFrom(board, camel, current_pos, spaces)[1], None>>)

\* Board.move_camel: <<new board, owner of the triggered tile or None>>
Board_move_camel(board, camel, spaces) ==
    Let1(get_camel_space(board.camel_positions, camel),
         LAMBDA current_pos :
             IF current_pos = None THEN <<board, None>>
             ELSE BoardMoveFrom(board, camel, current_pos, spaces))

\* Board.is_game_over
Board_is_game_over(board) == any_camel_finished(board.camel_positions, FINISH_LINE)

\* Board.get_valid_spectator_spaces (ascending)
get_valid_spectator_spaces(board, player) ==
    SelectSeq([i \in 1..(TRACK_LENGTH - 1) |-> i + 1],
              LAMBDA space : can_place_spectator_tile(board, space, player))

\* Board.clear_all_spectator_tiles
clear_all_spectator_tiles(board) == MkBoard(board.camel_positions, NoTiles)

\* ------------------------------------------------------------------------
\* dice.py: the pyramid
\* ------------------------------------------------------------------------
GREY == "grey"

\* Pyramid(): five racing dice in the pyramid, grey not rolled
NewPyramid == [remaining |-> RACING_CAMELS, grey_rolled |-> FALSE]

\* Pyramid.is_leg_complete
is_leg_complete(pyramid) ==
    Cardinality(pyramid.remaining) + (IF pyramid.grey_rolled THEN 0 ELSE 1) = 1

\* Pyramid.roll_from_pyramid, `available`
AvailableDice(pyramid) ==
    pyramid.remaining \cup (IF pyramid.grey_rolled THEN {} ELSE {GREY})

\* roll_racing_die / roll_grey_die: every DieRoll the random source can yield
\* for the dice still available (crazy_camel is None for a racing die)
DieRolls(pyramid) ==
    {[color |-> c, value |-> v, crazy_camel |-> "none"] :
        c \in pyramid.remaining, v \in DICE_FACES}
    \cup (IF pyramid.grey_rolled THEN {}
          ELSE {[color |-> GREY, value |-> v, crazy_camel |-> cc] :
                   v \in DICE_FACES, cc \in CRAZY_CAMELS})

\* Pyramid.roll_from_pyramid: the pyramid after `roll` was drawn
roll_from_pyramid(pyramid, roll) ==
    IF roll.color = GREY
    THEN [remaining |-> pyramid.remaining, grey_rolled |-> TRUE]
    ELSE [remaining |-> pyramid.remaining \ {roll.color},
          grey_rolled |-> pyramid.grey_rolled]

\* ------------------------------------------------------------------------
\* betting.py: BettingState, scoring, PlayerState
\* ------------------------------------------------------------------------
Players(n) == 0..(n - 1)

\* BettingState.create_for_players
create_for_players(n) ==
    [available_tickets |-> [c \in RACING_CAMELS |-> TICKET_VALUES],
     player_tickets |-> [p \in Players(n) |-> << >>],
     player_pyramid_tickets |-> [p \in Players(n) |-> 0],
     winner_bets |-> << >>,
     loser_bets |-> << >>]

\* BettingState.get_available_ticket is not None
has_available_ticket(betting, camel) == betting.available_tickets[camel] # << >>

\* a variant of take_ticket that leaves the ticket on the stack
take_ticket_kept(betting, player, camel) ==
    LET ticket == [camel |-> camel, value |-> betting.available_tickets[camel][1]]
    IN  [betting EXCEPT !.player_tickets[player] = Append(@, ticket)]

\* BettingState.take_ticket; the caller has checked that a ticket is there
take_ticket(betting, player, camel) ==
    LET ticket == [camel |-> camel, value |-> betting.available_tickets[camel][1]]
    IN  [betting EXCEPT
            !.available_tickets[camel] = Tail(@),
            !.player_tickets[player] = Append(@, ticket)]

\* a variant of take_pyramid_ticket that credits the first seat
take_pyramid_ticket_first_seat(betting, player) ==
    [betting EXCEPT !.player_pyramid_tickets[0] = @ + 1]

\* BettingState.take_pyramid_ticket
take_pyramid_ticket(betting, player) ==
    [betting EXCEPT !.player_pyramid_tickets[player] = @ + 1]

\* BettingState.place_overall_bet
place_overall_bet(betting, player, camel, is_winner_bet) ==
    LET bet == [camel |-> camel, player |-> player]
    IN  IF is_winner_bet
        THEN [betting EXCEPT !.winner_bets = Append(@, bet)]
        ELSE [betting EXCEPT !.loser_bets = Append(@, bet)]

\* BettingState.reset_for_new_leg
reset_for_new_leg_tickets_kept(betting) ==
    [available_tickets |-> [c \in RACING_CAMELS |-> TICKET_VALUES],
     player_tickets |-> [p \in DOMAIN betting.player_tickets |-> << >>],
     player_pyramid_tickets |-> betting.player_pyramid_tickets,
     winner_bets |-> betting.winner_bets,
     loser_bets |-> betting.loser_bets]

reset_for_new_leg(betting) ==
    [available_tickets |-> [c \in RACING_CAMELS |-> TICKET_VALUES],
     player_tickets |-> [p \in DOMAIN betting.player_tickets |-> << >>],
     player_pyramid_tickets |-> [p \in DOMAIN betting.player_tickets |-> 0],
     winner_bets |-> betting.winner_bets,
     loser_bets |-> betting.loser_bets]

\* calculate_leg_scores, the inner loop over one player's tickets
RECURSIVE TicketScore(_, _, _)
TicketScore(tickets, first_place, second_place) ==
    IF tickets = << >> THEN 0
    ELSE LET ticket == Head(tickets)
             s == IF ticket.camel = first_place THEN ticket.value
                  ELSE IF ticket.camel = second_place THEN LEG_SECOND_PLACE_PAYOUT
                  ELSE LEG_OTHER_PLACE_PAYOUT
         IN  s + TicketScore(Tail(tickets), first_place, second_place)

\* a variant of calculate_leg_scores that leaves the pyramid tickets out
calculate_leg_scores_tickets_only(betting, first_place, second_place) ==
    [p \in DOMAIN betting.player_tickets |->
        TicketScore(betting.player_tickets[p], first_place, second_place)]

\* calculate_leg_scores: score change per player
calculate_leg_scores(betting, first_place, second_place) ==
    [p \in DOMAIN betting.player_tickets |->
        TicketScore(betting.player_tickets[p], first_place, second_place)
        + betting.player_pyramid_tickets[p]]

\* a variant of QueueScore that pays every correct bet the first payout
RECURSIVE QueueScore_flat(_, _, _, _)
QueueScore_flat(bets, camel, correct, p) ==
    IF bets = << >> THEN 0
    ELSE LET bet == Head(bets)
             pay == IF bet.camel = camel THEN OVERALL_PAYOUTS[1]
                    ELSE OVERALL_WRONG_PAYOUT
         IN  (IF bet.player = p THEN pay ELSE 0)
             + QueueScore_flat(Tail(bets), camel, correct, p)

\* calculate_overall_scores, one queue: the score player p gets from `bets`
\* when `correct` bets on `camel` were already paid
RECURSIVE QueueScore(_, _, _, _)
QueueScore(bets, camel, correct, p) ==
    IF bets = << >> THEN 0
    ELSE LET bet == Head(bets)
             payout_idx == Min2(correct, Len(OVERALL_PAYOUTS) - 1)
             hit == bet.camel = camel
             pay == IF hit THEN OVERALL_PAYOUTS[payout_idx + 1]
                    ELSE OVERALL_WRONG_PAYOUT
         IN  (IF bet.player = p THEN pay ELSE 0)
             + QueueScore(Tail(bets), camel, IF hit THEN correct + 1 ELSE correct, p)

\* calculate_overall_scores: score change per player
calculate_overall_scores(betting, winner, loser) ==
    [p \in DOMAIN betting.player_tickets |->
        QueueScore(betting.winner_bets, winner, 0, p)
        + QueueScore(betting.loser_bets, loser, 0, p)]

\* PlayerState()
NewPlayer ==
    [coins |-> START_COINS, has_spectator_tile |-> TRUE,
     available_finish_cards |-> RACING_CAMELS]

\* a variant of add_coins without the floor at 0
add_coins_unfloored(player_state, amount) ==
    [player_state EXCEPT !.coins = @ + amount]

\* PlayerState.add_coins
add_coins(player_state, amount) ==
    [player_state EXCEPT !.coins = Max2(0, @ + amount)]

\* a variant of use_spectator_tile that leaves the tile with the player
use_spectator_tile_kept(player_state) == player_state

\* PlayerState.use_spectator_tile
use_spectator_tile(player_state) ==
    [player_state EXCEPT !.has_spectator_tile = FALSE]

\* a variant of return_spectator_tile that does not hand the tile back
return_spectator_tile_lost(player_state) == player_state

\* PlayerState.return_spectator_tile
return_spectator_tile(player_state) ==
    [player_state EXCEPT !.has_spectator_tile = TRUE]

\* PlayerState.can_bet_on_overall
can_bet_on_overall(player_state, camel) ==
    camel \in player_state.available_finish_cards

\* a variant of use_finish_card that leaves the card with the player
use_finish_card_kept(player_state, camel) == player_state

\* PlayerState.use_finish_card; the caller has checked that the card is there
use_finish_card(player_state, camel) ==
    [player_state EXCEPT !.available_finish_cards = @ \ {camel}]

\* ------------------------------------------------------------------------
\* game.py: actions and GameState
\* ------------------------------------------------------------------------
TAKE_BETTING_TICKET == "TAKE_BETTING_TICKET"

PLACE_SPECTATOR_TILE == "PLACE_SPECTATOR_TILE"

TAKE_PYRAMID_TICKET == "TAKE_PYRAMID_TICKET"

BET_OVERALL_WINNER == "BET_OVERALL_WINNER"

BET_OVERALL_LOSER == "BET_OVERALL_LOSER"

\* Action(action_type, camel, space, is_cheering); a field the action type
\* does not use (None in the source) is NoCamel, None or FALSE
NoCamel == "none"

Action(t, camel, space, is_cheering) ==
    [action_type |-> t, camel |-> camel, space |-> space, is_cheering |-> is_cheering]

TicketAction(camel) == Action(TAKE_BETTING_TICKET, camel, None, FALSE)

TileAction(space, is_cheering) ==
    Action(PLACE_SPECTATOR_TILE, NoCamel, space, is_cheering)

PyramidAction == Action(TAKE_PYRAMID_TICKET, NoCamel, None, FALSE)

WinnerAction(camel) == Action(BET_OVERALL_WINNER, camel, None, FALSE)

LoserAction(camel) == Action(BET_OVERALL_LOSER, camel, None, FALSE)

\* The order in which this run iterates the frozenset RACING_CAMELS
RACING_ORDER == <<"blue", "green", "yellow", "red", "purple">>

\* GameState.get_legal_actions, the four blocks of the list
TicketActions(gs) ==
    LET avail == SelectSeq(RACING_ORDER,
                           LAMBDA c : has_available_ticket(gs.betting, c))
    IN  [i \in 1..Len(avail) |-> TicketAction(avail[i])]

\* a variant of the tile block that does not ask whether the player holds
\* the tile (game.py:145)
TileActions_always(gs) ==
    LET valid == get_valid_spectator_spaces(gs.board, gs.current_player)
    IN  [i \in 1..(2 * Len(valid)) |->
            TileAction(valid[(i + 1) \div 2], i % 2 = 1)]

TileActions(gs) ==
    IF gs.players[gs.current_player].has_spectator_tile
    THEN LET valid == get_valid_spectator_spaces(gs.board, gs.current_player)
         IN  [i \in 1..(2 * Len(valid)) |->
                 TileAction(valid[(i + 1) \div 2], i % 2 = 1)]
    ELSE << >>

\* a variant of the pyramid block that offers the action only when the
\* pyramid is leg-complete
PyramidActions_inverted(gs) ==
    IF is_leg_complete(gs.pyramid) THEN <<PyramidAction>> ELSE << >>

PyramidActions(gs) ==
    IF ~is_leg_complete(gs.pyramid) THEN <<PyramidAction>> ELSE << >>

OverallActions(gs) ==
    LET cards == SelectSeq(RACING_ORDER,
                     LAMBDA c : can_bet_on_overall(gs.players[gs.current_player], c))
    IN  [i \in 1..(2 * Len(cards)) |->
            IF i % 2 = 1 THEN WinnerAction(cards[(i + 1) \div 2])
            ELSE LoserAction(cards[(i + 1) \div 2])]

\* GameState.get_legal_actions
get_legal_actions(gs) ==
    IF gs.is_game_over THEN << >>
    ELSE TicketActions(gs) \o TileActions(gs) \o PyramidActions(gs)
         \o OverallActions(gs)

\* GameState.apply_action, lines 196-262: the action itself.  `raised` tells
\* that a callee raised; the other fields are the new_* locals.
ActionEffect(gs, action, roll) ==
    LET player == gs.current_player
        player_state == gs.players[player]
        keep == [raised |-> FALSE, board |-> gs.board, pyramid |-> gs.pyramid,
                 betting |-> gs.betting, players |-> gs.players,
                 last |-> gs.last_pyramid_ticket_player]
        fail == [keep EXCEPT !.raised = TRUE]
    IN  CASE action.action_type = TAKE_BETTING_TICKET ->
                IF ~has_available_ticket(gs.betting, action.camel) THEN fail
                ELSE [keep EXCEPT
                         !.betting = take_ticket(gs.betting, player, action.camel)]
          [] action.action_type = PLACE_SPECTATOR_TILE ->
                IF ~can_place_spectator_tile(gs.board, action.space, player)
                THEN fail
                ELSE [keep EXCEPT
                         !.board = place_spectator_tile(gs.board, action.space,
                                                        player, action.is_cheering),
                         !.players[player] = use_spectator_tile(player_state)]
          [] action.action_type = TAKE_PYRAMID_TICKET ->
                IF AvailableDice(gs.pyramid) = {} THEN fail
                ELSE
                LET camel == IF roll.color = GREY
                             THEN get_crazy_camel_to_move(
                                      gs.board.camel_positions, roll.crazy_camel)
                             ELSE roll.color
                    dist == IF roll.color = GREY THEN -roll.value ELSE roll.value
                IN  Let1(Board_move_camel(gs.board, camel, dist),
                         LAMBDA moved :
                    [keep EXCEPT
                        !.betting = take_pyramid_ticket(gs.betting, player),
                        !.last = player,
                        !.pyramid = roll_from_pyramid(gs.pyramid, roll),
                        !.board = moved[1],
                        !.players = IF moved[2] # None
                                    THEN [@ EXCEPT ![moved[2]] = add_coins(@, 1)]
                                    ELSE @])
          [] action.action_type \in {BET_OVERALL_WINNER, BET_OVERALL_LOSER} ->
                IF action.camel \notin player_state.available_finish_cards
                THEN fail
                ELSE [keep EXCEPT
                         !.betting = place_overall_bet(gs.betting, player,
                                         action.camel,
                                         action.action_type = BET_OVERALL_WINNER),
                         !.players[player] =
                             use_finish_card(player_state, action.camel)]

\* a variant of AfterRanked that keeps the pyramid-ticket tracker of line 315
AfterRanked_tracker_kept(gs, e, is_game_over, ranking) ==
    LET player == gs.current_player
        n == Cardinality(DOMAIN gs.players)
        leg_ended == is_leg_complete(e.pyramid) /\ ~is_game_over
        scored == leg_ended \/ is_game_over
        reset == scored /\ ~is_game_over
        leg_scores == calculate_leg_scores(e.betting, ranking[1], ranking[2])
        overall_scores == calculate_overall_scores(e.betting, ranking[1],
                                                   ranking[Len(ranking)])
        AfterLeg(ps, p) == IF scored /\ Len(ranking) > 1
                           THEN add_coins(ps, leg_scores[p]) ELSE ps
        AfterReset(ps) == IF reset THEN return_spectator_tile(ps) ELSE ps
        AfterGame(ps, p) == IF is_game_over /\ Len(ranking) > 0
                            THEN add_coins(ps, overall_scores[p]) ELSE ps
        starts == leg_ended /\ e.last # None
    IN  [board |-> IF reset THEN clear_all_spectator_tiles(e.board) ELSE e.board,
         pyramid |-> IF reset THEN NewPyramid ELSE e.pyramid,
         betting |-> IF reset THEN reset_for_new_leg(e.betting) ELSE e.betting,
         players |->
             [p \in DOMAIN e.players |->
                 Let1(AfterLeg(e.players[p], p),
                      LAMBDA p1 :
                          Let1(AfterReset(p1), LAMBDA p2 : AfterGame(p2, p)))],
         current_player |-> IF starts THEN (e.last + 1) % n ELSE (player + 1) % n,
         leg_number |-> IF reset THEN gs.leg_number + 1 ELSE gs.leg_number,
         is_game_over |-> is_game_over,
         last_pyramid_ticket_player |-> e.last]

\* a variant of AfterRanked that floors the coins once at the game end, after
\* both scores are added
AfterRanked_single_floor(gs, e, is_game_over, ranking) ==
    LET player == gs.current_player
        n == Cardinality(DOMAIN gs.players)
        leg_ended == is_leg_complete(e.pyramid) /\ ~is_game_over
        scored == leg_ended \/ is_game_over
        reset == scored /\ ~is_game_over
        leg_scores == calculate_leg_scores(e.betting, ranking[1], ranking[2])
        overall_scores == calculate_overall_scores(e.betting, ranking[1],
                                                   ranking[Len(ranking)])
        AfterLeg(ps, p) == IF scored /\ Len(ranking) > 1
                           THEN IF is_game_over
                                THEN add_coins_unfloored(ps, leg_scores[p])
                                ELSE add_coins(ps, leg_scores[p])
                           ELSE ps
        AfterReset(ps) == IF reset THEN return_spectator_tile(ps) ELSE ps
        AfterGame(ps, p) == IF is_game_over /\ Len(ranking) > 0
                            THEN add_coins(ps, overall_scores[p]) ELSE ps
        starts == leg_ended /\ e.last # None
    IN  [board |-> IF reset THEN clear_all_spectator_tiles(e.board) ELSE e.board,
         pyramid |-> IF reset THEN NewPyramid ELSE e.pyramid,
         betting |-> IF reset THEN reset_for_new_leg(e.betting) ELSE e.betting,
         players |->
             [p \in DOMAIN e.players |->
                 Let1(AfterLeg(e.players[p], p),
                      LAMBDA p1 :
                          Let1(AfterReset(p1), LAMBDA p2 : AfterGame(p2, p)))],
         current_player |-> IF starts THEN (e.last + 1) % n ELSE (player + 1) % n,
         leg_number |-> IF reset THEN gs.leg_number + 1 ELSE gs.leg_number,
         is_game_over |-> is_game_over,
         last_pyramid_ticket_player |-> IF starts THEN None ELSE e.last]

\* GameState.apply_action, lines 264-327: game end, leg end, next player.
\* e holds the new_* locals, ranking is new_board.get_ranking()
AfterRanked(gs, e, is_game_over, ranking) ==
    LET player == gs.current_player
        n == Cardinality(DOMAIN gs.players)
        leg_ended == is_leg_complete(e.pyramid) /\ ~is_game_over
        scored == leg_ended \/ is_game_over
        reset == scored /\ ~is_game_over
        leg_scores == calculate_leg_scores(e.betting, ranking[1], ranking[2])
        overall_scores == calculate_overall_scores(e.betting, ranking[1],
                                                   ranking[Len(ranking)])
        AfterLeg(ps, p) == IF scored /\ Len(ranking) > 1
                           THEN add_coins(ps, leg_scores[p]) ELSE ps
        AfterReset(ps) == IF reset THEN return_spectator_tile(ps) ELSE ps
        AfterGame(ps, p) == IF is_game_over /\ Len(ranking) > 0
                            THEN add_coins(ps, overall_scores[p]) ELSE ps
        starts == leg_ended /\ e.last # None
    IN  [board |-> IF reset THEN clear_all_spectator_tiles(e.board) ELSE e.board,
         pyramid |-> IF reset THEN NewPyramid ELSE e.pyramid,
         betting |-> IF reset THEN reset_for_new_leg(e.betting) ELSE e.betting,
         players |->
             [p \in DOMAIN e.players |->
                 Let1(AfterLeg(e.players[p], p),
                      LAMBDA p1 :
                          Let1(AfterReset(p1), LAMBDA p2 : AfterGame(p2, p)))],
         current_player |-> IF starts THEN (e.last + 1) % n ELSE (player + 1) % n,
         leg_number |-> IF reset THEN gs.leg_number + 1 ELSE gs.leg_number,
         is_game_over |-> is_game_over,
         last_pyramid_ticket_player |-> IF starts THEN None ELSE e.last]

AfterAction(gs, e) ==
    Let1(Board_is_game_over(e.board),
         LAMBDA is_game_over :
             Let1(get_ranking(e.board.camel_positions),
                  LAMBDA ranking : AfterRanked(gs, e, is_game_over, ranking)))

\* a variant of apply_action without the is_game_over check of lines 188-189
apply_action_unchecked(gs, action, roll) ==
    Let1(ActionEffect(gs, action, roll),
         LAMBDA e :
             IF e.raised THEN [raised |-> TRUE, state |-> gs]
             ELSE [raised |-> FALSE, state |-> AfterAction(gs, e)])

\* GameState.apply_action: [raised, state]; state is the returned GameState,
\* and the unchanged receiver when the call raised
apply_action(gs, action, roll) ==
    IF gs.is_game_over THEN [raised |-> TRUE, state |-> gs]
    ELSE Let1(ActionEffect(gs, action, roll),
              LAMBDA e :
                  IF e.raised THEN [raised |-> TRUE, state |-> gs]
                  ELSE [raised |-> FALSE, state |-> AfterAction(gs, e)])

\* create_initial_positions: racing camels enter in iteration order through
\* move_camel (not on the board yet), then white and black are placed
RECURSIVE PlaceRacing(_, _, _)
PlaceRacing(stacks, order, rolls) ==
    IF order = << >> THEN stacks
    ELSE PlaceRacing(
             CamelPositions_move_camel(stacks, Head(order), rolls[Head(order)], FALSE),
             Tail(order), rolls)

\* CRAZY_START_POSITIONS
CrazyStart(v) == 17 - v

create_initial_positions(order, rolls, white_roll, black_roll) ==
    place_camel(
        place_camel(PlaceRacing(EmptyPositions(NUM_SPACES), order, rolls),
                    "white", CrazyStart(white_roll)),
        "black", CrazyStart(black_roll))

\* GameState.get_scores
get_scores(gs) == [p \in DOMAIN gs.players |-> gs.players[p].coins]

\* a variant of get_winner without the tie check of lines 342-343
get_winner_untied(gs) ==
    IF ~gs.is_game_over THEN None
    ELSE LET scores == get_scores(gs)
             max_score == CHOOSE m \in {scores[p] : p \in DOMAIN scores} :
                              \A p \in DOMAIN scores : scores[p] <= m
         IN  CHOOSE p \in DOMAIN scores :
                 /\ scores[p] = max_score
                 /\ \A q \in DOMAIN scores : scores[q] = max_score => p <= q

\* GameState.get_winner
get_winner(gs) ==
    IF ~gs.is_game_over THEN None
    ELSE LET scores == get_scores(gs)
             max_score == CHOOSE m \in {scores[p] : p \in DOMAIN scores} :
                              \A p \in DOMAIN scores : scores[p] <= m
             count == Cardinality({p \in DOMAIN scores : scores[p] = max_score})
         IN  IF count > 1 THEN None
             ELSE CHOOSE p \in DOMAIN scores :
                      /\ scores[p] = max_score
                      /\ \A q \in DOMAIN scores : scores[q] = max_score => p <= q

\* GameState.create_new_game
create_new_game(num_players, order, rolls, white_roll, black_roll) ==
    [board |-> MkBoard(create_initial_positions(order, rolls, white_roll, black_roll),
                       NoTiles),
     pyramid |-> NewPyramid,
     betting |-> create_for_players(num_players),
     players |-> [p \in Players(num_players) |-> NewPlayer],
     current_player |-> 0,
     leg_number |-> 1,
     is_game_over |-> FALSE,
     last_pyramid_ticket_player |-> None]

\* ------------------------------------------------------------------------
\* probability/calculator.py
\* ------------------------------------------------------------------------
DICE_VALUES == <<1, 2, 3>>

RemoveAt(s, i) == SubSeq(s, 1, i - 1) \o SubSeq(s, i + 1, Len(s))

\* every sequence of seqs with x put in front
RECURSIVE PrependAll(_, _)
PrependAll(x, seqs) ==
    IF seqs = << >> THEN << >>
    ELSE << <<x>> \o Head(seqs) >> \o PrependAll(x, Tail(seqs))

\* a variant of permutations that yields the given ordering alone
permutations_identity(s) == << s >>

\* itertools.permutations: the orderings of s, in the order itertools yields
RECURSIVE permutations(_), PermsFrom(_, _)
permutations(s) == IF s = << >> THEN << << >> >> ELSE PermsFrom(s, 1)

PermsFrom(s, i) ==
    IF i > Len(s) THEN << >>
    ELSE PrependAll(s[i], permutations(RemoveAt(s, i))) \o PermsFrom(s, i + 1)

\* itertools.product(DICE_VALUES, repeat=n), in the order itertools yields
RECURSIVE product(_), ProductFrom(_, _)
product(n) == IF n = 0 THEN << << >> >> ELSE ProductFrom(n, 1)

ProductFrom(n, j) ==
    IF j > Len(DICE_VALUES) THEN << >>
    ELSE PrependAll(DICE_VALUES[j], product(n - 1)) \o ProductFrom(n, j + 1)

\* tuple(zip(dice_order, values))
zip(dice_order, values) ==
    [k \in 1..Len(dice_order) |-> <<dice_order[k], values[k]>>]

\* enumerate_dice_sequences, the inner loop over the value combinations
RECURSIVE ZipAll(_, _)
ZipAll(dice_order, value_list) ==
    IF value_list = << >> THEN << >>
    ELSE <<zip(dice_order, Head(value_list))>>
         \o ZipAll(dice_order, Tail(value_list))

\* enumerate_dice_sequences, the outer loop over the orderings
RECURSIVE SequencesOf(_, _)
SequencesOf(orders, value_list) ==
    IF orders = << >> THEN << >>
    ELSE ZipAll(Head(orders), value_list) \o SequencesOf(Tail(orders), value_list)

\* a variant of enumerate_dice_sequences that keeps the dice in the order given
enumerate_dice_sequences_unordered(remaining_dice) ==
    IF remaining_dice = << >> THEN << << >> >>
    ELSE SequencesOf(<<remaining_dice>>, product(Len(remaining_dice)))

\* enumerate_dice_sequences
enumerate_dice_sequences(remaining_dice) ==
    IF remaining_dice = << >> THEN << << >> >>
    ELSE SequencesOf(permutations(remaining_dice), product(Len(remaining_dice)))

\* enumerate_grey_die_outcomes
enumerate_grey_die_outcomes ==
    <<  <<"white", 1>>, <<"white", 2>>, <<"white", 3>>,
        <<"black", 1>>, <<"black", 2>>, <<"black", 3>>  >>

\* grey_outcome is None
NoGrey == << >>

\* simulate_sequence_with_grey, one pass of the loop body: sim holds
\* current_board, racing_idx, spaces_landed, game_finished; applied counts the
\* dice rolled so far
SimRoll(sim, racing_sequence, grey_outcome, grey_position, i) ==
    LET positions == sim.board.camel_positions
        grey == grey_outcome # NoGrey /\ i = grey_position
        camel == IF grey
                 THEN get_crazy_camel_to_move(positions, grey_outcome[1])
                 ELSE racing_sequence[sim.racing_idx + 1][1]
        dist == IF grey THEN -grey_outcome[2]
                ELSE racing_sequence[sim.racing_idx + 1][2]
        old_space == get_camel_space(positions, camel)
    IN  Let1(Board_move_camel(sim.board, camel, dist)[1],
             LAMBDA current_board :
                 LET new_space == get_camel_space(current_board.camel_positions,
                                                  camel)
                     lands == IF grey THEN new_space # old_space
                              ELSE new_space # None
                                   /\ (old_space = None \/ new_space # old_space)
                 IN  [board |-> current_board,
                      racing_idx |-> IF grey THEN sim.racing_idx
                                     ELSE sim.racing_idx + 1,
                      spaces_landed |-> IF lands
                                        THEN Append(sim.spaces_landed, new_space)
                                        ELSE sim.spaces_landed,
                      game_finished |-> Board_is_game_over(current_board),
                      applied |-> sim.applied + 1])

\* a variant of SimLoop without the break of lines 264-266
RECURSIVE SimLoop_no_break(_, _, _, _, _, _)
SimLoop_no_break(sim, racing_sequence, grey_outcome, grey_position, i, total_dice) ==
    IF i >= total_dice THEN sim
    ELSE Let1(SimRoll(sim, racing_sequence, grey_outcome, grey_position, i),
              LAMBDA next :
                  SimLoop_no_break(
                      [next EXCEPT !.game_finished = @ \/ sim.game_finished],
                      racing_sequence, grey_outcome, grey_position,
                      i + 1, total_dice))

\* simulate_sequence_with_grey, the loop from pass i on
RECURSIVE SimLoop(_, _, _, _, _, _)
SimLoop(sim, racing_sequence, grey_outcome, grey_position, i, total_dice) ==
    IF i >= total_dice \/ sim.game_finished THEN sim
    ELSE Let1(SimRoll(sim, racing_sequence, grey_outcome, grey_position, i),
              LAMBDA next :
                  SimLoop(next, racing_sequence, grey_outcome, grey_position,
                          i + 1, total_dice))

\* simulate_sequence_with_grey: the LegOutcome, with the final board and the
\* number of dice that were rolled
simulate_sequence_with_grey(b, racing_sequence, grey_outcome, grey_position) ==
    LET total_dice == Len(racing_sequence)
                      + (IF grey_outcome # NoGrey THEN 1 ELSE 0)
        start == [board |-> b, racing_idx |-> 0, spaces_landed |-> << >>,
                  game_finished |-> FALSE, applied |-> 0]
    IN  Let1(SimLoop(start, racing_sequence, grey_outcome, grey_position, 0,
                     total_dice),
             LAMBDA sim :
                 [ranking |-> get_ranking(sim.board.camel_positions),
                  spaces_landed |-> sim.spaces_landed,
                  game_finished |-> sim.game_finished,
                  board |-> sim.board,
                  applied |-> sim.applied])

\* ------------------------------------------------------------------------
\* The driver (play_game): the current snapshot and the last call made on it
\* ------------------------------------------------------------------------
NumPlayers == 3

\* a spectator tile is placed at most this far ahead of a racing camel
MaxTileReach == 1

\* at most this many tickets, tiles and overall bets together
MaxExtras == 1

\* state: the GameState the loop of play_game holds; history: the number of
\* actions appended to its history list; last: the last call of apply_action
VARIABLES state, history, last

\* board: the Board a caller holds; call: the last call made on it
VARIABLES board, call

\* query: the arguments of calculate_all_probabilities; idx: how many
\* enumerated outcomes were simulated; tally: its counters; outcome: the last
\* LegOutcome
VARIABLES query, idx, tally, outcome

\* runs: two runs of play_game on the same seed: the order in which each run
\* iterates the frozenset RACING_CAMELS, and the GameState of each
VARIABLES runs

gameVars == <<state, history, last>>

boardVars == <<board, call>>

probVars == <<query, idx, tally, outcome>>

vars == <<state, history, last, board, call, query, idx, tally, outcome, runs>>

NoCall == [op |-> "none"]

\* the variables of the board calls while no board call is made
BoardIdle == board = MkBoard(<< >>, NoTiles) /\ call = NoCall

\* the variables of the probability query while no query is made
ProbIdle == query = << >> /\ idx = 0 /\ tally = << >> /\ outcome = << >>

NoRoll == [color |-> "none", value |-> 0, crazy_camel |-> "none"]

Racing(c, v) == [color |-> c, value |-> v, crazy_camel |-> "none"]

Grey(cc, v) == [color |-> GREY, value |-> v, crazy_camel |-> cc]

\* random.Random(seed): the outcomes the random source may yield at the
\* i-th draw of the game (a bounded family of streams)
RngOutcomes ==
    << {Racing("blue", 3)},
       {Racing("green", 3)},
       {Racing("yellow", 3)},
       {Racing("red", 2), Racing("red", 3)},
       {Grey("black", 3), Racing("purple", 2), Racing("purple", 3)},
       {Racing("red", 1)},
       {Racing("purple", 2), Racing("purple", 1)},
       {Racing("blue", 1)},
       {Racing("green", 1)},
       {Racing("yellow", 1), Grey("white", 2)},
       {Racing("red", 3)},
       {Racing("blue", 1)},
       {Racing("green", 1)},
       {Racing("yellow", 1)},
       {Grey("black", 1), Racing("purple", 1)} >>

\* the number of dice drawn since the game began (five per finished leg)
DrawsSoFar(gs) ==
    5 * (gs.leg_number - 1) + (6 - Cardinality(AvailableDice(gs.pyramid)))

ScriptedRolls(gs) ==
    IF DrawsSoFar(gs) < Len(RngOutcomes)
    THEN RngOutcomes[DrawsSoFar(gs) + 1] \cap DieRolls(gs.pyramid)
    ELSE {}

TileNear(gs, space) ==
    \E c \in RACING_CAMELS :
        space - get_camel_space(gs.board.camel_positions, c) \in 1..MaxTileReach

\* the actions of the game so far that were not a draw from the pyramid
Extras == history - DrawsSoFar(state)

\* play_game, one turn: the agent's action must be in legal_actions
Turn(legal_actions, action, roll) ==
    /\ InSeq(action, legal_actions)
    /\ \E r \in {apply_action(state, action, roll)} :
           /\ state' = r.state
           /\ history' = history + 1
           /\ last' = [kind |-> "turn", action |-> action, roll |-> roll,
                       raised |-> r.raised]
           /\ UNCHANGED <<boardVars, probVars, runs>>

InitOrders == {RACING_ORDER}

InitRolls == {[c \in RACING_CAMELS |-> 3]}

\* play_game before the first turn of a game of num_players players
Start(num_players) ==
    /\ \E order \in InitOrders, rolls \in InitRolls, w \in {1}, b \in {1} :
           state = create_new_game(num_players, order, rolls, w, b)
    /\ history = 0
    /\ last = [kind |-> "init", action |-> PyramidAction, roll |-> NoRoll,
               raised |-> FALSE]
    /\ BoardIdle
    /\ ProbIdle
    /\ runs = << >>

Init == \E num_players \in 2..NumPlayers : Start(num_players)

TakeTicket ==
    /\ Extras < MaxExtras
    /\ \E legal_actions \in {get_legal_actions(state)}, c \in RACING_CAMELS :
           Turn(legal_actions, TicketAction(c), NoRoll)

PlaceTile ==
    /\ Extras < MaxExtras
    /\ \E legal_actions \in {get_legal_actions(state)},
          space \in 1..NUM_SPACES, is_cheering \in BOOLEAN :
           /\ TileNear(state, space)
           /\ Turn(legal_actions, TileAction(space, is_cheering), NoRoll)

Draw ==
    \E legal_actions \in {get_legal_actions(state)},
       roll \in ScriptedRolls(state) :
        Turn(legal_actions, PyramidAction, roll)

BetWinner ==
    /\ Extras < MaxExtras
    /\ \E legal_actions \in {get_legal_actions(state)}, c \in RACING_CAMELS :
           Turn(legal_actions, WinnerAction(c), NoRoll)

BetLoser ==
    /\ Extras < MaxExtras
    /\ \E legal_actions \in {get_legal_actions(state)}, c \in RACING_CAMELS :
           Turn(legal_actions, LoserAction(c), NoRoll)

\* apply_action called on a finished game; the returned value is discarded
CallWhenOver ==
    /\ state.is_game_over
    /\ last.kind # "probe"
    /\ \E action \in {TicketAction("blue"), TileAction(2, TRUE), PyramidAction,
                      WinnerAction("blue"), LoserAction("blue")} :
       \E r \in {apply_action(state, action, NoRoll)} :
           /\ last' = [kind |-> "probe", action |-> action, roll |-> NoRoll,
                       raised |-> r.raised]
           /\ UNCHANGED <<state, history, boardVars, probVars, runs>>

Next ==
    \/ TakeTicket
    \/ PlaceTile
    \/ Draw
    \/ BetWinner
    \/ BetLoser
    \/ CallWhenOver

Spec == Init /\ [][Next]_vars

\* ------------------------------------------------------------------------
\* Calls on a Board: place_spectator_tile, then one move_camel
\* ------------------------------------------------------------------------
\* the highest space a caller places a spectator tile on
MaxTileSpace == 5

\* at most this many spectator tiles are placed before the move
MaxBoardTiles == 1

\* CamelPositions.place_camel for each camel of `order` in turn
RECURSIVE PlaceAll(_, _, _)
PlaceAll(stacks, order, spaces) ==
    IF order = << >> THEN stacks
    ELSE PlaceAll(place_camel(stacks, Head(order), spaces[Head(order)]),
                  Tail(order), spaces)

BoardOrders ==
    {<<"white", "black", "blue", "green", "yellow", "red", "purple">>,
     <<"blue", "green", "yellow", "red", "purple", "white", "black">>,
     <<"white", "blue", "black", "green", "yellow", "red", "purple">>,
     <<"black", "blue", "white", "green", "yellow", "red", "purple">>}

BoardSpaces ==
    {sp \in [ALL_CAMELS -> {1, 2, 3}] :
        /\ \A c \in {"blue", "green", "yellow"} : sp[c] \in {1, 2}
        /\ \A c \in {"red", "purple"} : sp[c] = 1
        /\ \A c \in CRAZY_CAMELS : sp[c] \in {2, 3}}

InitBoard ==
    /\ \E order \in BoardOrders, sp \in BoardSpaces :
           board = MkBoard(PlaceAll(EmptyPositions(NUM_SPACES), order, sp),
                           NoTiles)
    /\ call = NoCall
    /\ state = << >> /\ history = 0 /\ last = << >> /\ runs = << >>
    /\ ProbIdle

\* Board.place_spectator_tile(space, player, is_cheering)
CallPlaceTile ==
    /\ call.op \in {"none", "tile"}
    /\ Cardinality(DOMAIN board.spectator_tiles) < MaxBoardTiles
    /\ \E space \in 1..MaxTileSpace, player \in Players(NumPlayers),
          is_cheering \in BOOLEAN :
        \E ok \in {can_place_spectator_tile(board, space, player)} :
           /\ board' = IF ok
                       THEN place_spectator_tile(board, space, player, is_cheering)
                       ELSE board
           /\ call' = [op |-> "tile", camel |-> NoCamel, spaces |-> space,
                       before |-> board, owner |-> player, raised |-> ~ok]
    /\ UNCHANGED <<gameVars, probVars, runs>>

\* Board.move_camel(camel, spaces) as apply_action calls it
CallMove(camel, spaces) ==
    /\ call.op \in {"none", "tile"}
    /\ \E moved \in {Board_move_camel(board, camel, spaces)} :
           /\ board' = moved[1]
           /\ call' = [op |-> "move", camel |-> camel, spaces |-> spaces,
                       before |-> board, owner |-> moved[2], raised |-> FALSE]
    /\ UNCHANGED <<gameVars, probVars, runs>>

MoveRacing == \E camel \in RACING_CAMELS, v \in DICE_FACES : CallMove(camel, v)

MoveCrazy ==
    \E grey_die_camel \in CRAZY_CAMELS, v \in DICE_FACES :
        CallMove(get_crazy_camel_to_move(board.camel_positions, grey_die_camel),
                 -v)

NextBoard ==
    \/ CallPlaceTile
    \/ MoveRacing
    \/ MoveCrazy

SpecBoard == InitBoard /\ [][NextBoard]_vars

\* ------------------------------------------------------------------------
\* calculate_all_probabilities: the enumeration loop, one outcome per step
\* ------------------------------------------------------------------------
\* at most this many racing dice are undrawn in a query
MaxUndrawnRacing == 2

\* the counters of calculate_all_probabilities before the loop; raised tells
\* that the loop was left by an IndexError
NewTally ==
    [ranking_counts |-> [c \in RACING_CAMELS |-> <<0, 0, 0, 0, 0>>],
     space_landing_counts |-> [sp \in {} |-> 0],
     win_counts |-> [c \in RACING_CAMELS |-> 0],
     lose_counts |-> [c \in RACING_CAMELS |-> 0],
     game_ends_count |-> 0,
     total_outcomes |-> 0,
     raised |-> FALSE]

\* "record ranking": ranking_counts[camel][racing_pos] += 1 along the ranking
RECURSIVE RecordRanking(_, _, _)
RecordRanking(t, ranking, racing_pos) ==
    IF ranking = << >> \/ t.raised THEN t
    ELSE LET camel == Head(ranking)
         IN  IF camel \notin DOMAIN t.ranking_counts
             THEN RecordRanking(t, Tail(ranking), racing_pos)
             ELSE IF racing_pos >= Len(t.ranking_counts[camel])
             THEN [t EXCEPT !.raised = TRUE]
             ELSE RecordRanking(
                      [t EXCEPT !.ranking_counts[camel][racing_pos + 1] = @ + 1],
                      Tail(ranking), racing_pos + 1)

\* "record space landings": space_landing_counts[space] += 1 (a defaultdict)
RECURSIVE RecordLandings(_, _)
RecordLandings(counts, spaces_landed) ==
    IF spaces_landed = << >> THEN counts
    ELSE LET space == Head(spaces_landed)
             bumped == [sp \in DOMAIN counts \cup {space} |->
                           (IF sp \in DOMAIN counts THEN counts[sp] ELSE 0)
                           + (IF sp = space THEN 1 ELSE 0)]
         IN  RecordLandings(bumped, Tail(spaces_landed))

\* "record game end outcomes"
RecordGameEnd(t, o) ==
    IF ~o.game_finished THEN t
    ELSE LET racing_ranking == SelectSeq(o.ranking, is_racing_camel)
             ended == [t EXCEPT !.game_ends_count = @ + 1]
         IN  IF racing_ranking = << >> THEN ended
             ELSE [ended EXCEPT
                      !.win_counts[racing_ranking[1]] = @ + 1,
                      !.lose_counts[racing_ranking[Len(racing_ranking)]] = @ + 1]

\* the loop body of calculate_all_probabilities after the simulation
RecordOutcome(t, o) ==
    Let1(RecordRanking(t, o.ranking, 0),
         LAMBDA t1 :
             IF t1.raised THEN t1
             ELSE Let1(RecordGameEnd(
                           [t1 EXCEPT !.space_landing_counts =
                                      RecordLandings(@, o.spaces_landed)], o),
                       LAMBDA t2 : [t2 EXCEPT !.total_outcomes = @ + 1]))

\* the number of passes of the loop for a query
NumOutcomes(q) ==
    Len(q.racing_sequences)
    * (IF q.grey_die_available
       THEN Len(enumerate_grey_die_outcomes) * (Len(q.remaining_racing_dice) + 1)
       ELSE 1)

\* test_sixth_die_not_simulated: the board of the test
TestBoard ==
    MkBoard(PlaceAll(EmptyPositions(NUM_SPACES),
                     <<"blue", "green", "yellow", "red", "purple", "white", "black">>,
                     [c \in ALL_CAMELS |->
                         CASE c = "blue" -> 14
                           [] c = "green" -> 15
                           [] c \in {"white", "black"} -> 10
                           [] OTHER -> 1]),
            NoTiles)

\* a board at the start of a game
StartBoard ==
    MkBoard(create_initial_positions(RACING_ORDER,
                [c \in RACING_CAMELS |-> IF c \in {"blue", "green"} THEN 2 ELSE 1],
                1, 3),
            NoTiles)

\* the last one is StartBoard after player 0 placed the booing tile on space 3
QueryBoards ==
    {TestBoard, StartBoard, place_spectator_tile(StartBoard, 3, 0, FALSE)}

QueryDicePool == {"blue", "green", "yellow"}

\* the lists of distinct undrawn racing dice a caller passes
QueryDice ==
    {d \in UNION {[1..k -> QueryDicePool] : k \in 0..MaxUndrawnRacing} :
        \A i, j \in DOMAIN d : i # j => d[i] # d[j]}

InitProb ==
    /\ \E b \in QueryBoards, dice \in QueryDice, grey \in BOOLEAN :
           query = [board |-> b, remaining_racing_dice |-> dice,
                    grey_die_available |-> grey,
                    racing_sequences |-> enumerate_dice_sequences(dice)]
    /\ idx = 0
    /\ tally = NewTally
    /\ outcome = << >>
    /\ state = << >> /\ history = 0 /\ last = << >> /\ runs = << >>
    /\ BoardIdle

\* one pass of the loop: simulate the next enumerated outcome and record it
Simulate ==
    /\ ~tally.raised
    /\ idx < NumOutcomes(query)
    /\ LET n == Len(query.remaining_racing_dice)
           per == IF query.grey_die_available
                  THEN Len(enumerate_grey_die_outcomes) * (n + 1) ELSE 1
           racing_seq == query.racing_sequences[(idx \div per) + 1]
           grey_outcome == IF query.grey_die_available
                           THEN enumerate_grey_die_outcomes[
                                    ((idx % per) \div (n + 1)) + 1]
                           ELSE NoGrey
           grey_pos == IF query.grey_die_available THEN idx % (n + 1) ELSE None
       IN  \E o \in {simulate_sequence_with_grey(query.board, racing_seq,
                                                 grey_outcome, grey_pos)} :
               /\ outcome' = o
               /\ tally' = RecordOutcome(tally, o)
    /\ idx' = idx + 1
    /\ UNCHANGED <<query, gameVars, boardVars, runs>>

NextProb == Simulate

SpecProb == InitProb /\ [][NextProb]_vars

\* ------------------------------------------------------------------------
\* play_game with betting agents: player 0 bets up to MaxBets times a leg,
\* every other player up to MaxOtherBets times, and one seeded dice stream
\* decides the race
\* ------------------------------------------------------------------------
MaxBets == 5

MaxOtherBets == 1

\* the actions the betting agents choose from, besides drawing
BetMenu ==
    {TicketAction("purple"), TicketAction("blue"), WinnerAction("purple"),
     LoserAction("blue"), LoserAction("purple"), TileAction(15, TRUE)}

\* the tickets player p holds and the tile p has out this leg, plus the
\* finish cards p has spent
BetsMade(gs, p) ==
    Len(gs.betting.player_tickets[p])
    + (IF gs.players[p].has_spectator_tile THEN 0 ELSE 1)
    + (Cardinality(RACING_CAMELS)
       - Cardinality(gs.players[p].available_finish_cards))

BetsAllowed(p) == IF p = 0 THEN MaxBets ELSE MaxOtherBets

\* random.Random(seed): what the i-th draw of the game may yield
BetsRngOutcomes ==
    << {Racing("blue", 3)},
       {Racing("green", 3)},
       {Racing("yellow", 3)},
       {Racing("red", 2)},
       {Racing("purple", 3), Racing("purple", 1)},
       {Racing("red", 3), Racing("purple", 2)} >>

BetsRolls(gs) ==
    IF DrawsSoFar(gs) < Len(BetsRngOutcomes)
    THEN BetsRngOutcomes[DrawsSoFar(gs) + 1] \cap DieRolls(gs.pyramid)
    ELSE {}

AgentBets ==
    /\ BetsMade(state, state.current_player) < BetsAllowed(state.current_player)
    /\ \E legal_actions \in {get_legal_actions(state)}, action \in BetMenu :
           Turn(legal_actions, action, NoRoll)

AgentDraws ==
    \E legal_actions \in {get_legal_actions(state)}, roll \in BetsRolls(state) :
        Turn(legal_actions, PyramidAction, roll)

NextBets ==
    \/ AgentBets
    \/ AgentDraws

\* the betting games are played by two players
BetPlayers == 2

InitBets == Start(BetPlayers)

SpecBets == InitBets /\ [][NextBets]_vars

\* ------------------------------------------------------------------------
\* play_game with agents that place spectator tiles and draw
\* ------------------------------------------------------------------------
\* at most this many spectator tiles are placed in a game
MaxTilesPlaced == 3

\* the agents choose among the listed tile placements
AgentPlaces ==
    LET menu == {TileAction(4, TRUE), TileAction(4, FALSE), TileAction(5, TRUE),
                 TileAction(5, FALSE), TileAction(6, FALSE),
                 TileAction(15, TRUE), TileAction(15, FALSE)}
    IN  /\ Extras < MaxTilesPlaced
        /\ \E legal_actions \in {get_legal_actions(state)}, action \in menu :
               Turn(legal_actions, action, NoRoll)

\* the random source yields one of the listed outcomes at the i-th draw
AgentRolls ==
    LET outcomes ==
            << {Racing("purple", 1), Racing("purple", 2)},
               {Racing("red", 1), Racing("red", 2)},
               {Grey("black", 1), Grey("white", 2)},
               {Racing("yellow", 1)},
               {Racing("green", 2)},
               {Racing("blue", 1), Grey("white", 1)} >>
        rolls == IF DrawsSoFar(state) < Len(outcomes)
                 THEN outcomes[DrawsSoFar(state) + 1] \cap DieRolls(state.pyramid)
                 ELSE {}
    IN  \E legal_actions \in {get_legal_actions(state)}, roll \in rolls :
            Turn(legal_actions, PyramidAction, roll)

SpecTiles == Init /\ [][AgentPlaces \/ AgentRolls]_vars

\* ------------------------------------------------------------------------
\* Calls of Board.place_spectator_tile, one after another, on one board
\* ------------------------------------------------------------------------
\* the spaces the callers name
PlaceSpaces == {1, 2, 3, 4, 5, 16, 17}

InitPlace ==
    /\ \E order \in InitOrders, rolls \in InitRolls :
           board = MkBoard(create_initial_positions(order, rolls, 1, 1), NoTiles)
    /\ call = NoCall
    /\ state = << >> /\ history = 0 /\ last = << >> /\ runs = << >>
    /\ ProbIdle

\* Board.place_spectator_tile(space, player, is_cheering)
PlaceCall ==
    /\ \E space \in PlaceSpaces, player \in Players(NumPlayers),
          is_cheering \in BOOLEAN :
        \E ok \in {can_place_spectator_tile(board, space, player)} :
           /\ board' = IF ok
                       THEN place_spectator_tile(board, space, player, is_cheering)
                       ELSE board
           /\ call' = [op |-> "tile", camel |-> NoCamel, spaces |-> space,
                       before |-> board, owner |-> player, raised |-> ~ok,
                       is_cheering |-> is_cheering]
    /\ UNCHANGED <<gameVars, probVars, runs>>

SpecPlace == InitPlace /\ [][PlaceCall]_vars

\* ------------------------------------------------------------------------
\* Two runs of play_game with one seed and the agents of
\* test_game_deterministic_with_seed, up to the first draw from the pyramid
\* ------------------------------------------------------------------------
\* the runs are compared over this many turns
MaxRunTurns == 6

\* create_new_game(2, seed) in each run: random.Random(seed) yields the same
\* die values in both, and the i-th value goes to the i-th camel of the run's
\* iteration of RACING_CAMELS (game.py:81-84), which hash randomisation may
\* order differently from run to run
InitRuns ==
    /\ LET orders == {RACING_ORDER,
                      <<"purple", "red", "green", "blue", "yellow">>,
                      <<"yellow", "green", "purple", "red", "blue">>}
           seeds == {<<1, 2, 3, 1, 2>>, <<3, 3, 3, 3, 3>>, <<2, 1, 1, 3, 2>>,
                     <<1, 1, 2, 2, 3>>}
           rolls(order, seed) ==
               [c \in RACING_CAMELS |->
                   seed[CHOOSE i \in 1..Len(order) : order[i] = c]]
       IN  \E first \in orders, second \in orders, seed \in seeds :
               runs = [order |-> <<first, second>>,
                       state |-> <<create_new_game(2, first, rolls(first, seed),
                                                   1, 1),
                                   create_new_game(2, second, rolls(second, seed),
                                                   1, 1)>>]
    /\ state = << >> /\ history = 0 /\ last = << >>
    /\ BoardIdle
    /\ ProbIdle

\* one turn of each run; the agent returns actions[0], and the list begins
\* with the tickets in the run's iteration of RACING_CAMELS (betting.py:86)
RunsTurn ==
    LET first_action(gs, order) ==
            LET avail == SelectSeq(order,
                                   LAMBDA c : has_available_ticket(gs.betting, c))
            IN  IF avail # << >> THEN TicketAction(avail[1])
                ELSE get_legal_actions(gs)[1]
        turn(gs, order) == apply_action(gs, first_action(gs, order), NoRoll).state
    IN  /\ history < MaxRunTurns
        /\ \A k \in {1, 2} :
               /\ ~runs.state[k].is_game_over
               /\ first_action(runs.state[k], runs.order[k]) # PyramidAction
               /\ InSeq(first_action(runs.state[k], runs.order[k]),
                        get_legal_actions(runs.state[k]))
        /\ runs' = [runs EXCEPT
                       !.state = <<turn(runs.state[1], runs.order[1]),
                                   turn(runs.state[2], runs.order[2])>>]
        /\ history' = history + 1
        /\ UNCHANGED <<state, last, boardVars, probVars>>

SpecRuns == InitRuns /\ [][RunsTurn]_vars

\* ------------------------------------------------------------------------
\* Calls of GameState.create_new_game with any player count
\* ------------------------------------------------------------------------
\* create_new_game(num_players, seed): the body (game.py:78-119) has no
\* check of num_players and no raise; range(num_players) is empty for a
\* count of zero or below
CreateGame ==
    /\ call.op = "none"
    /\ \E num_players \in -1..NumPlayers,
          rolls \in [RACING_CAMELS -> DICE_FACES], w \in {1, 3}, b \in {1} :
           /\ state' = create_new_game(num_players, RACING_ORDER, rolls, w, b)
           /\ call' = [op |-> "create", num_players |-> num_players,
                       raised |-> FALSE]
    /\ UNCHANGED <<history, last, board, probVars, runs>>

InitCreate ==
    /\ state = << >> /\ history = 0 /\ last = << >> /\ runs = << >>
    /\ BoardIdle
    /\ ProbIdle

SpecCreate == InitCreate /\ [][CreateGame]_vars

\* ------------------------------------------------------------------------
\* play_game to its end: agents that place a tile ahead of the camels or
\* draw, dice of any colour, and a process whose memory is finite
\* ------------------------------------------------------------------------
\* the longest camel stack the memory of the process holds (scaled down)
MaxStackHeight == 40

\* the tuples of CamelPositions.stacks fit into memory
Fits(b) ==
    \A space \in 0..(NUM_SPACES - 1) : Len(get_stack_at(b, space)) <= MaxStackHeight

\* the agent of the current player places a tile before a leg's first draw
LoopPlaces ==
    /\ last.kind \in {"init", "turn"}
    /\ state.pyramid = NewPyramid
    /\ \E legal_actions \in {get_legal_actions(state)},
          action \in {TileAction(4, FALSE), TileAction(4, TRUE),
                      TileAction(5, FALSE)} :
           Turn(legal_actions, action, NoRoll)

\* rng.choice picks the racing dice in the order of RACING_ORDER; a die shows
\* 1, the purple one 1 or 3
LoopRolls ==
    {r \in DieRolls(state.pyramid) :
        /\ r.color # GREY
        /\ r.value \in (IF r.color = "purple" THEN {1, 3} ELSE {1})
        /\ \A k \in DOMAIN RACING_ORDER :
               RACING_ORDER[k] \in state.pyramid.remaining =>
                   \E j \in 1..k : RACING_ORDER[j] = r.color}

\* the agent of the current player draws
LoopDraws ==
    /\ last.kind \in {"init", "turn"}
    /\ \E legal_actions \in {get_legal_actions(state)}, roll \in LoopRolls :
           /\ Fits(Board_move_camel(state.board, roll.color, roll.value)[1])
           /\ Turn(legal_actions, PyramidAction, roll)

\* the agent of the current player draws and camel.py:252-253 builds a stack
\* that memory does not hold: apply_action raises MemoryError and play_game
\* ends without returning a state
LoopFails ==
    /\ last.kind \in {"init", "turn"}
    /\ ~state.is_game_over
    /\ \E roll \in LoopRolls :
           /\ ~Fits(Board_move_camel(state.board, roll.color, roll.value)[1])
           /\ last' = [kind |-> "memory_error", action |-> PyramidAction,
                       roll |-> roll, raised |-> TRUE]
    /\ UNCHANGED <<state, history, boardVars, probVars, runs>>

InitLoop == Start(BetPlayers)

SpecLoop == InitLoop /\ [][LoopPlaces \/ LoopDraws \/ LoopFails]_vars

\* ------------------------------------------------------------------------
\* Properties
\* ------------------------------------------------------------------------
\* how often `camel` occurs in the first n stacks
RECURSIVE Occurrences(_, _, _)
Occurrences(stacks, camel, n) ==
    IF n = 0 THEN 0
    ELSE Count(camel, stacks[n]) + Occurrences(stacks, camel, n - 1)

\* every Action value a caller can build for this board
ActionUniverse ==
    {TicketAction(c) : c \in RACING_CAMELS}
    \cup {TileAction(space, ch) : space \in 0..(NUM_SPACES + 1), ch \in BOOLEAN}
    \cup {PyramidAction}
    \cup {WinnerAction(c) : c \in RACING_CAMELS}
    \cup {LoserAction(c) : c \in RACING_CAMELS}

\* the dice outcomes apply_action can meet when it is handed `action`
RollsFor(gs, action) ==
    IF action.action_type = TAKE_PYRAMID_TICKET THEN DieRolls(gs.pyramid)
    ELSE {NoRoll}

\* C1: in every state reached from create_new_game by legal actions, each of
\* the seven camels occurs exactly once on the board (one space, one height).
C1_EveryCamelExactlyOnce ==
    \A c \in ALL_CAMELS :
        Occurrences(state.board.camel_positions, c,
                    Len(state.board.camel_positions)) = 1

\* C3: in every reachable state that is not terminal, apply_action raises for
\* every action that is not an element of get_legal_actions(state).
C3_IllegalActionRaises ==
    ~state.is_game_over =>
        \E legal_actions \in {get_legal_actions(state)} :
            \A action \in ActionUniverse :
                ~InSeq(action, legal_actions) =>
                    \A roll \in RollsFor(state, action) :
                        apply_action(state, action, roll).raised

\* some racing camel stands on space 17 or beyond
RacingCamelPastFinish(gs) ==
    \E space \in FINISH_LINE..(Len(gs.board.camel_positions) - 1) :
        \E c \in RACING_CAMELS : InSeq(c, get_stack_at(gs.board, space))

\* C4: in every reachable state is_game_over is true exactly when some racing
\* camel stands on space 17 or beyond.
C4_GameOverIffRacingCamelFinished ==
    state.is_game_over <=> RacingCamelPastFinish(state)

\* the TAKE_PYRAMID_TICKET actions in a list of actions
PyramidCount(actions) ==
    Cardinality({i \in 1..Len(actions) :
                    actions[i].action_type = TAKE_PYRAMID_TICKET})

\* C5: get_legal_actions returns the empty list exactly when the game is
\* over, and in every state that is not terminal the list holds exactly one
\* TAKE_PYRAMID_TICKET action (the pyramid never rests leg-complete).
C5_LegalActionsEmptyIffGameOver ==
    \E legal_actions \in {get_legal_actions(state)} :
        /\ (legal_actions = << >>) <=> state.is_game_over
        /\ ~state.is_game_over =>
               /\ PyramidCount(legal_actions) = 1
               /\ ~is_leg_complete(state.pyramid)

\* C5 witness: a game that ended in a later leg, so a leg has been closed and
\* the pyramid refilled before the terminal state with no legal action
C5_Witness ==
    /\ state.is_game_over
    /\ state.leg_number >= 2
    /\ get_legal_actions(state) = << >>

\* C6: apply_action on a state whose is_game_over is true raises for every
\* action and leaves the state (coins, board, pyramid, bet queues) as it is.
C6_GameOverCallRaises ==
    state.is_game_over =>
        /\ \A action \in ActionUniverse :
               apply_action(state, action, NoRoll) =
                   [raised |-> TRUE, state |-> state]
        /\ last.kind = "probe" => last.raised

\* C6 witness: apply_action was called on a finished game and raised
C6_Witness ==
    /\ state.is_game_over
    /\ last.kind = "probe"
    /\ last.raised
    /\ last.action = TicketAction("blue")

\* ---- one move_camel call: what it moved, from where, to where ----
\* the space the camel stood on before the call
MoveOrigin == get_camel_space(call.before.camel_positions, call.camel)

\* the space the camel stands on after the call
MoveDest == get_camel_space(board.camel_positions, call.camel)

\* origin + d, the destination before tile and floor
RawDest == MoveOrigin + call.spaces

\* the camel and every camel above it before the call, bottom to top
MovingGroup ==
    LET stack == get_stack_at(call.before, MoveOrigin)
    IN  SubSeq(stack, position_of(stack, call.camel) + 1, Len(stack))

\* the camels below the camel before the call, bottom to top
BelowGroup ==
    LET stack == get_stack_at(call.before, MoveOrigin)
    IN  SubSeq(stack, 1, position_of(stack, call.camel))

Without(stack, group) == SelectSeq(stack, LAMBDA c : ~InSeq(c, group))

Only(stack, group) == SelectSeq(stack, LAMBDA c : InSeq(c, group))

\* C7: a move takes the camel and every camel above it, as one group in
\* unchanged order, to the destination; the camels below stay on the origin
\* in unchanged order; no other space changes.
C7_GroupMovesTogether ==
    call.op = "move" =>
        /\ Only(get_stack_at(board, MoveDest), MovingGroup) = MovingGroup
        /\ Without(get_stack_at(board, MoveOrigin), MovingGroup) = BelowGroup
        /\ MoveOrigin # MoveDest => get_stack_at(board, MoveOrigin) = BelowGroup
        /\ \A space \in 0..(NUM_SPACES - 1) :
               space \notin {MoveOrigin, MoveDest} =>
                   get_stack_at(board, space) = get_stack_at(call.before, space)

\* the move was triggered by a booing tile on the raw destination
BooingTriggered ==
    /\ get_spectator_tile(call.before, RawDest) # NoTile
    /\ ~get_spectator_tile(call.before, RawDest).is_cheering

\* C8: the moving group lands on top of the camels already on the destination,
\* underneath them when a booing tile triggered the move; the camels already
\* there keep their order.
C8_OnTopUnlessBooing ==
    call.op = "move" =>
        LET others == Without(get_stack_at(call.before, MoveDest), MovingGroup)
        IN  get_stack_at(board, MoveDest) =
                IF BooingTriggered THEN MovingGroup \o others
                ELSE others \o MovingGroup

\* C9 as stated: a tile on the raw destination sends the camel to raw + 1
\* (cheering) or raw - 1 (booing) and its owner is returned; without a tile
\* the camel ends on the raw destination and None is returned; the tile map
\* is unchanged.
C9_TileRuleAsStated ==
    call.op = "move" =>
        LET tile == get_spectator_tile(call.before, RawDest)
        IN  /\ tile # NoTile =>
                   /\ MoveDest = RawDest + (IF tile.is_cheering THEN 1 ELSE -1)
                   /\ call.owner = tile.owner
            /\ tile = NoTile => MoveDest = RawDest /\ call.owner = None
            /\ board.spectator_tiles = call.before.spectator_tiles

\* C9 amended: as stated, but without a tile the camel ends on the raw
\* destination floored at space 1.
C9_TileRuleFloored ==
    call.op = "move" =>
        LET tile == get_spectator_tile(call.before, RawDest)
        IN  /\ tile # NoTile =>
                   /\ MoveDest = RawDest + (IF tile.is_cheering THEN 1 ELSE -1)
                   /\ call.owner = tile.owner
            /\ tile = NoTile =>
                   MoveDest = Max2(1, RawDest) /\ call.owner = None
            /\ board.spectator_tiles = call.before.spectator_tiles

\* C9 witness: a move that landed on a cheering tile and went one further
C9_Witness ==
    /\ call.op = "move"
    /\ get_spectator_tile(call.before, RawDest) # NoTile
    /\ get_spectator_tile(call.before, RawDest).is_cheering
    /\ MoveDest = RawDest + 1
    /\ call.owner = get_spectator_tile(call.before, RawDest).owner

\* C10: every camel stands on a space >= 1, and a backward move whose
\* computed destination is below space 1 ends on space 1.
C10_NoCamelBelowSpaceOne ==
    /\ get_stack_at(board, 0) = << >>
    /\ \A c \in ALL_CAMELS : get_camel_space(board.camel_positions, c) >= 1
    /\ (call.op = "move" /\ RawDest < 1) => MoveDest = 1

\* C10 witness: a crazy camel whose move back would pass space 1 stands on 1
C10_Witness ==
    /\ call.op = "move"
    /\ call.camel \in CRAZY_CAMELS
    /\ RawDest < 1
    /\ MoveDest = 1

\* the dice that are undrawn in the query: racing dice plus grey
UndrawnDice(q) ==
    Len(q.remaining_racing_dice) + (IF q.grey_die_available THEN 1 ELSE 0)

\* the enumeration of the query is complete
QueryDone == idx = NumOutcomes(query)

\* C2: the probability engine replays in each enumerated sequence one die
\* fewer than are undrawn: with k undrawn dice (k >= 2, racing dice plus
\* grey) no sequence applies more than k - 1 moves; and when only Blue's die
\* and the grey die are undrawn, Blue has moved in exactly half of the
\* enumerated outcomes (on the board where Blue leads only if it moves).
C2_OneDieStaysUndrawn ==
    /\ (outcome # << >> /\ UndrawnDice(query) >= 2) =>
           outcome.applied <= UndrawnDice(query) - 1
    /\ (/\ QueryDone
        /\ query.board = TestBoard
        /\ query.remaining_racing_dice = <<"blue">>
        /\ query.grey_die_available) =>
           2 * tally.ranking_counts["blue"][1] = tally.total_outcomes

\* ---- the two crazy camels on a board ----
\* the boards a board call has seen: the one before the call and the current
BoardsSeen == IF call.op = "none" THEN {board} ELSE {board, call.before}

\* some racing camel stands above the crazy camel cc in cc's stack
CarriesRacer(b, cc) ==
    \E s \in 1..Len(b.camel_positions) :
        \E h1, h2 \in 1..Len(b.camel_positions[s]) :
            /\ h1 < h2
            /\ b.camel_positions[s][h1] = cc
            /\ is_racing_camel(b.camel_positions[s][h2])

OtherCrazy(cc) == IF cc = "white" THEN "black" ELSE "white"

\* C11: when exactly one crazy camel has a racing camel stacked above it,
\* get_crazy_camel_to_move returns that camel whichever crazy camel the grey
\* die shows, on the board as it is at the draw.
C11_CrazyCamelPriority ==
    \A b \in BoardsSeen, cc \in CRAZY_CAMELS :
        (CarriesRacer(b, cc) /\ ~CarriesRacer(b, OtherCrazy(cc))) =>
            \A grey_die_camel \in CRAZY_CAMELS :
                get_crazy_camel_to_move(b.camel_positions, grey_die_camel) = cc

\* C11 witness: a grey draw moved white, which alone carried a racing camel
\* with black on the same space above that racer, though the die shows black
C11_Witness ==
    /\ call.op = "move"
    /\ call.camel = "white"
    /\ CarriesRacer(call.before, "white")
    /\ ~CarriesRacer(call.before, "black")
    /\ get_camel_space(call.before.camel_positions, "white")
           = get_camel_space(call.before.camel_positions, "black")
    /\ get_crazy_camel_to_move(call.before.camel_positions, "black") = "white"
    /\ get_camel_space(board.camel_positions, "white")
           < get_camel_space(call.before.camel_positions, "white")

\* both crazy camels stand on one space of b with no racing camel between
StackedDirectly(b) ==
    \E s \in 1..Len(b.camel_positions) :
        \E hw, hb \in 1..Len(b.camel_positions[s]) :
            /\ b.camel_positions[s][hw] = "white"
            /\ b.camel_positions[s][hb] = "black"
            /\ \A h \in (Min2(hw, hb) + 1)..(Max2(hw, hb) - 1) :
                   ~is_racing_camel(b.camel_positions[s][h])

\* the crazy camel that is higher when both stand on one space
HigherCrazy(b) ==
    LET s == get_camel_space(b.camel_positions, "white")
        stack == get_stack_at(b, s)
    IN  IF position_of(stack, "white") > position_of(stack, "black")
        THEN "white" ELSE "black"

\* neither or both crazy camels carry a racing camel
NoPriority(b) == CarriesRacer(b, "white") <=> CarriesRacer(b, "black")

\* C12: when the priority rule does not apply, two crazy camels stacked with
\* no racing camel between them make get_crazy_camel_to_move return the higher
\* one whatever the die shows; in every other case it returns the camel the
\* die shows; the result is always a crazy camel.
C12_StackedElseDie ==
    \A b \in BoardsSeen, grey_die_camel \in CRAZY_CAMELS :
        /\ get_crazy_camel_to_move(b.camel_positions, grey_die_camel)
               \in CRAZY_CAMELS
        /\ NoPriority(b) =>
               get_crazy_camel_to_move(b.camel_positions, grey_die_camel) =
                   IF StackedDirectly(b) THEN HigherCrazy(b) ELSE grey_die_camel

\* C12 witness: a grey draw on a board where both crazy camels carry a racer,
\* a racing camel stands between them, and each die face moves its own camel
C12_Witness ==
    /\ call.op = "move"
    /\ call.camel \in CRAZY_CAMELS
    /\ CarriesRacer(call.before, "white")
    /\ CarriesRacer(call.before, "black")
    /\ get_camel_space(call.before.camel_positions, "white")
           = get_camel_space(call.before.camel_positions, "black")
    /\ ~StackedDirectly(call.before)
    /\ \A grey_die_camel \in CRAZY_CAMELS :
           get_crazy_camel_to_move(call.before.camel_positions, grey_die_camel)
               = grey_die_camel

\* ---- the ranking of a board ----
\* <<space, height>> of camel c on the board b
Where(b, c) == find_camel(b.camel_positions, c)

\* camel c is ranked ahead of camel d: higher space, or same space and higher
Ahead(b, c, d) ==
    \/ Where(b, c)[1] > Where(b, d)[1]
    \/ Where(b, c)[1] = Where(b, d)[1] /\ Where(b, c)[2] > Where(b, d)[2]

\* r lists every racing camel exactly once and nothing else
IsRacingPermutation(r) ==
    /\ Len(r) = Cardinality(RACING_CAMELS)
    /\ \A c \in RACING_CAMELS : Count(c, r) = 1

\* r is ordered by space descending, then by height descending
RankedBySpaceThenHeight(b, r) ==
    \A i, j \in 1..Len(r) : i < j => Ahead(b, r[i], r[j])

\* C13: in every reachable state get_ranking is a permutation of the five
\* racing camels, ordered by space descending and within a space by height
\* descending, and holds no crazy camel.
C13_RankingIsSortedPermutation ==
    \E ranking \in {get_ranking(state.board.camel_positions)} :
        /\ IsRacingPermutation(ranking)
        /\ \A i \in 1..Len(ranking) : ~is_crazy_camel(ranking[i])
        /\ RankedBySpaceThenHeight(state.board, ranking)

\* ---- one apply_action of play_game: state is the receiver, state' the
\* returned GameState, last' the action and the die it drew ----
TurnStep == last'.kind = "turn" /\ history' = history + 1

\* the transition started a new leg
LegEnded == state'.leg_number # state.leg_number

\* the action drew a die and left exactly one of the six dice undrawn
FifthDraw ==
    /\ last'.action.action_type = TAKE_PYRAMID_TICKET
    /\ Cardinality(AvailableDice(roll_from_pyramid(state.pyramid, last'.roll))) = 1

\* the state a new leg starts from, given the bet queues to be kept
FreshLeg(gs, winner_bets, loser_bets) ==
    /\ gs.pyramid.remaining = RACING_CAMELS /\ ~gs.pyramid.grey_rolled
    /\ \A c \in RACING_CAMELS : gs.betting.available_tickets[c] = <<5, 3, 2, 2>>
    /\ \A p \in DOMAIN gs.players :
           /\ gs.betting.player_tickets[p] = << >>
           /\ gs.betting.player_pyramid_tickets[p] = 0
           /\ gs.players[p].has_spectator_tile
    /\ DOMAIN gs.board.spectator_tiles = {}
    /\ gs.betting.winner_bets = winner_bets
    /\ gs.betting.loser_bets = loser_bets

\* C14: a leg ends exactly on the TAKE_PYRAMID_TICKET action whose draw leaves
\* one die undrawn while no racing camel is on space 17 or beyond; the state
\* returned then has leg_number + 1, a full pyramid, full ticket stacks, no
\* leg or pyramid tickets with the players, no tile on the board, every
\* player's tile back, and the overall bet queues as they were.
C14_LegEndsOnFifthDraw ==
    [][TurnStep =>
          /\ LegEnded <=> (FifthDraw /\ ~RacingCamelPastFinish(state'))
          /\ LegEnded =>
                /\ state'.leg_number = state.leg_number + 1
                /\ FreshLeg(state', state.betting.winner_bets,
                            state.betting.loser_bets)]_vars

\* C14 witness: leg 2 has just begun by a draw, after a leg in which one
\* ticket was taken or one tile placed, and tickets and tiles are back
C14_Witness ==
    /\ last.kind = "turn"
    /\ last.action.action_type = TAKE_PYRAMID_TICKET
    /\ state.leg_number = 2
    /\ DrawsSoFar(state) = 5
    /\ Extras = 1
    /\ state.betting.winner_bets = << >> /\ state.betting.loser_bets = << >>
    /\ FreshLeg(state, << >>, << >>)

\* ---- scoring at the end of a leg ----
\* what one leg ticket pays when `first` leads and `second` follows
LegTicketPay(ticket, first, second) ==
    IF ticket.camel = first THEN ticket.value
    ELSE IF ticket.camel = second THEN 1
    ELSE -1

RECURSIVE LegTicketSum(_, _, _)
LegTicketSum(tickets, first, second) ==
    IF tickets = << >> THEN 0
    ELSE LegTicketPay(Head(tickets), first, second)
         + LegTicketSum(Tail(tickets), first, second)

\* s of player p for the leg that the transition state -> state' closes: the
\* tickets p holds, paid by the ranking after the last move, plus p's pyramid
\* tickets, the one of the closing draw included
LegScore(p) ==
    LET ranking == get_ranking(state'.board.camel_positions)
    IN  LegTicketSum(state.betting.player_tickets[p], ranking[1], ranking[2])
        + state.betting.player_pyramid_tickets[p]
        + (IF p = state.current_player THEN 1 ELSE 0)

\* the camel the draw of the transition moves, and how far
DrawnCamel ==
    IF last'.roll.color = GREY
    THEN get_crazy_camel_to_move(state.board.camel_positions,
                                 last'.roll.crazy_camel)
    ELSE last'.roll.color

DrawnDistance ==
    IF last'.roll.color = GREY THEN -last'.roll.value ELSE last'.roll.value

\* the spectator-tile coin the closing draw paid to player p
TileCoin(p) ==
    IF Board_move_camel(state.board, DrawnCamel, DrawnDistance)[2] = p
    THEN 1 ELSE 0

\* C15 as stated: at a leg end each player's coins become max(0, coins + s).
C15_LegScoreAsStated ==
    [][(TurnStep /\ LegEnded) =>
          \A p \in DOMAIN state.players :
              state'.players[p].coins
                  = Max2(0, state.players[p].coins + LegScore(p))]_vars

\* the coins of player p after the spectator-tile payment of the closing draw
CoinsAfterMove(p) == state.players[p].coins + TileCoin(p)

\* C15: at a leg end that does not end the game each player's coins become
\* max(0, c + s), where c is the player's coins after the spectator-tile
\* payment of the leg's last move and s is the sum over the leg tickets the
\* player holds (face value if the camel is 1st after the last move, +1 if
\* 2nd, -1 otherwise) plus the player's pyramid tickets, the one taken by the
\* closing action included.
C15_LegScoreAfterTileCoin ==
    [][(TurnStep /\ LegEnded) =>
          \A p \in DOMAIN state.players :
              state'.players[p].coins
                  = Max2(0, CoinsAfterMove(p) + LegScore(p))]_vars

\* a leg has just been closed by five draws of one player while the other
\* player held four losing tickets: the floor at 0 applied
C15_Witness ==
    /\ state.leg_number = 2
    /\ DrawsSoFar(state) = 5
    /\ last.kind = "turn"
    /\ last.action = PyramidAction
    /\ state.players[0].coins = 0
    /\ state.players[1].coins = START_COINS + 5

GameEnded == state'.is_game_over /\ ~state.is_game_over

OverallPay(n) == IF n <= 8 THEN <<8, 5, 3, 2, 1, 1, 1, 1>>[n] ELSE 1

\* the number of bets on `camel` among the first i bets of the queue
CorrectUpTo(queue, i, camel) ==
    Cardinality({j \in 1..i : queue[j].camel = camel})

\* what the first i bets of the queue pay player p when `camel` is the answer
RECURSIVE QueuePay(_, _, _, _)
QueuePay(queue, i, camel, p) ==
    IF i = 0 THEN 0
    ELSE QueuePay(queue, i - 1, camel, p)
         + (IF queue[i].player # p THEN 0
            ELSE IF queue[i].camel = camel
                 THEN OverallPay(CorrectUpTo(queue, i, camel))
                 ELSE -1)

\* the overall-bet score of player p against the ranking after the last move
OverallScore(p) ==
    LET ranking == get_ranking(state'.board.camel_positions)
        winner_bets == state.betting.winner_bets
        loser_bets == state.betting.loser_bets
    IN  QueuePay(winner_bets, Len(winner_bets), ranking[1], p)
        + QueuePay(loser_bets, Len(loser_bets), ranking[Len(ranking)], p)

NumSeats == Cardinality(DOMAIN state.players)

\* C17: when a leg ends and the game goes on, the closing action was a
\* pyramid draw of player p = current_player, the new state's current_player
\* is (p + 1) mod N and its last_pyramid_ticket_player is None.
C17_StartingPlayerAfterLeg ==
    [][(TurnStep /\ LegEnded) =>
          /\ last'.action = PyramidAction
          /\ ~state'.is_game_over
          /\ state'.current_player = (state.current_player + 1) % NumSeats
          /\ state'.last_pyramid_ticket_player = None]_vars

\* a three-player game whose first leg was closed by a draw of the last seat
C17_Witness ==
    /\ NumSeats = 3
    /\ state.leg_number = 2
    /\ DrawsSoFar(state) = 5
    /\ last.kind = "turn"
    /\ last.action = PyramidAction
    /\ state.current_player = 0
    /\ state.last_pyramid_ticket_player = None

\* what an applied action of the given type changes in the holdings of
\* player p: 1 where it changes that holding, 0 where it leaves it alone
Changes(p) ==
    [ticket |-> Len(state'.betting.player_tickets[p])
                    - Len(state.betting.player_tickets[p]),
     pyramid |-> state'.betting.player_pyramid_tickets[p]
                    - state.betting.player_pyramid_tickets[p],
     tile |-> IF state.players[p].has_spectator_tile
                 /\ ~state'.players[p].has_spectator_tile THEN 1
              ELSE IF state.players[p].has_spectator_tile
                      = state'.players[p].has_spectator_tile THEN 0
              ELSE -1,
     card |-> IF state'.players[p].available_finish_cards
                    \subseteq state.players[p].available_finish_cards
              THEN Cardinality(state.players[p].available_finish_cards)
                   - Cardinality(state'.players[p].available_finish_cards)
              ELSE -1]

OneChange(action_type) ==
    [ticket |-> IF action_type = TAKE_BETTING_TICKET THEN 1 ELSE 0,
     pyramid |-> IF action_type = TAKE_PYRAMID_TICKET THEN 1 ELSE 0,
     tile |-> IF action_type = PLACE_SPECTATOR_TILE THEN 1 ELSE 0,
     card |-> IF action_type \in {BET_OVERALL_WINNER, BET_OVERALL_LOSER}
              THEN 1 ELSE 0]

NoChange == [ticket |-> 0, pyramid |-> 0, tile |-> 0, card |-> 0]

\* C18: an apply_action that returns and does not end a leg applies the one
\* action to the holdings of the current player, leaves the holdings of the
\* other players alone and passes the turn to (current + 1) mod N.
C18_OneActionThenNextSeat ==
    [][(TurnStep /\ ~last'.raised /\ ~LegEnded) =>
          /\ state'.current_player = (state.current_player + 1) % NumSeats
          /\ state'.leg_number = state.leg_number
          /\ \A p \in DOMAIN state.players :
                 Changes(p) = IF p = state.current_player
                              THEN OneChange(last'.action.action_type)
                              ELSE NoChange]_vars

\* in a three-player game the last seat took a ticket and the turn wrapped
\* to seat 0
C18_Witness ==
    /\ NumSeats = 3
    /\ last.kind = "turn"
    /\ ~last.raised
    /\ last.action.action_type = TAKE_BETTING_TICKET
    /\ Len(state.betting.player_tickets[2]) = 1
    /\ state.current_player = 0

\* the tickets of `camel` that players hold with face value v
HeldCount(camel, v) ==
    Cardinality({pi \in {<<p, i>> : p \in DOMAIN state.betting.player_tickets,
                                     i \in 1..(Len(TICKET_VALUES)
                                                * Cardinality(RACING_CAMELS))} :
                    /\ pi[2] \in DOMAIN state.betting.player_tickets[pi[1]]
                    /\ state.betting.player_tickets[pi[1]][pi[2]]
                           = [camel |-> camel, value |-> v]})

\* the entries of value v among the first k of the sequence
CountIn(values, k, v) == Cardinality({i \in 1..k : values[i] = v})

\* a player's tickets of one camel lie in the order they left the stack
TakenTopFirst(tickets) ==
    \A i, j \in DOMAIN tickets :
        (i < j /\ tickets[i].camel = tickets[j].camel)
            => tickets[i].value >= tickets[j].value

\* C19: for every racing camel the tickets that players hold are the top k
\* of (5,3,2,2), each held once and in the order taken, and the available
\* stack is the rest of (5,3,2,2).
C19_TicketsConserved ==
    /\ \A c \in RACING_CAMELS :
           \E k \in 0..Len(TICKET_VALUES) :
               /\ state.betting.available_tickets[c]
                      = SubSeq(TICKET_VALUES, k + 1, Len(TICKET_VALUES))
               /\ \A v \in 0..5 : HeldCount(c, v) = CountIn(TICKET_VALUES, k, v)
    /\ \A p \in DOMAIN state.betting.player_tickets :
           /\ TakenTopFirst(state.betting.player_tickets[p])
           /\ \A i \in DOMAIN state.betting.player_tickets[p] :
                  /\ state.betting.player_tickets[p][i].camel \in RACING_CAMELS
                  /\ state.betting.player_tickets[p][i].value \in 0..5

\* all four tickets of one camel are taken and two players hold some of them
C19_Witness ==
    \E c \in RACING_CAMELS :
        /\ state.betting.available_tickets[c] = << >>
        /\ \A p \in {0, 1} :
               \E i \in DOMAIN state.betting.player_tickets[p] :
                   state.betting.player_tickets[p][i].camel = c

\* the overall bets of player p on `camel`, both queues together
OverallBets(p, camel) ==
    Cardinality({i \in DOMAIN state.betting.winner_bets :
                    state.betting.winner_bets[i] = [camel |-> camel, player |-> p]})
    + Cardinality({i \in DOMAIN state.betting.loser_bets :
                    state.betting.loser_bets[i] = [camel |-> camel, player |-> p]})

\* the overall bets of player p
BetsOf(p) ==
    Cardinality({i \in DOMAIN state.betting.winner_bets :
                    state.betting.winner_bets[i].player = p})
    + Cardinality({i \in DOMAIN state.betting.loser_bets :
                    state.betting.loser_bets[i].player = p})

\* every bet of the queue is a bet of a seated player on a racing camel
WellFormedBets(queue) ==
    \A i \in DOMAIN queue :
        /\ queue[i].camel \in RACING_CAMELS
        /\ queue[i].player \in DOMAIN state.players

\* C20: a player has at most one overall bet per camel, bets and remaining
\* finish cards add up to 5, every bet is on a racing camel by a seated
\* player, and an overall bet of the current player on a camel whose card is
\* spent raises and leaves the state as it was.
C20_FinishCardsSpentOnce ==
    /\ \A p \in DOMAIN state.players :
           /\ \A c \in RACING_CAMELS : OverallBets(p, c) <= 1
           /\ BetsOf(p) + Cardinality(state.players[p].available_finish_cards) = 5
    /\ WellFormedBets(state.betting.winner_bets)
    /\ WellFormedBets(state.betting.loser_bets)
    /\ \A c \in RACING_CAMELS
               \ state.players[state.current_player].available_finish_cards :
           \A action \in {WinnerAction(c), LoserAction(c)} :
               apply_action(state, action, NoRoll)
                   = [raised |-> TRUE, state |-> state]

\* the game is on and the player to move has spent two finish cards, one in
\* each queue
C20_Witness ==
    /\ ~state.is_game_over
    /\ Cardinality(state.players[state.current_player].available_finish_cards) = 3
    /\ \E i \in DOMAIN state.betting.winner_bets :
           state.betting.winner_bets[i].player = state.current_player
    /\ \E i \in DOMAIN state.betting.loser_bets :
           state.betting.loser_bets[i].player = state.current_player

\* C21: every player's coin total is a natural number in every state.
C21_CoinsNeverNegative ==
    \A p \in DOMAIN state.players : state.players[p].coins \in Nat

\* the game is over and a player whose leg tickets and overall bets lost
\* more than the coins held is at 0
C21_Witness ==
    /\ state.is_game_over
    /\ \E p \in DOMAIN state.players :
           /\ state.players[p].coins = 0
           /\ Len(state.betting.player_tickets[p]) + BetsOf(p) > START_COINS

\* C22: the spectator tiles of the board lie on spaces 2..16 that hold no
\* camel, any two of them belong to different players and lie at least two
\* spaces apart (the tiles are a map from spaces, one tile per space).
C22_TilesWellPlaced ==
    LET tiles == state.board.spectator_tiles
    IN  /\ DOMAIN tiles \subseteq 2..TRACK_LENGTH
        /\ \A s \in DOMAIN tiles :
               /\ get_stack_at(state.board, s) = << >>
               /\ tiles[s].owner \in DOMAIN state.players
        /\ \A s, t \in DOMAIN tiles :
               s < t => /\ tiles[s].owner # tiles[t].owner
                        /\ t - s >= 2

\* tiles of two players lie on spaces 4 and 6 and a camel was moved onto
\* space 5 between them
C22_Witness ==
    /\ {4, 6} \subseteq DOMAIN state.board.spectator_tiles
    /\ get_stack_at(state.board, 5) # << >>
    /\ last.kind = "turn"
    /\ last.action = PyramidAction

\* the condition of C23 on board b
CanPlaceAsStated(b, space, player) ==
    /\ 2 <= space /\ space <= 16
    /\ ~\E c \in ALL_CAMELS : InSeq(c, get_stack_at(b, space))
    /\ \A s \in {space - 1, space, space + 1} :
           s \in DOMAIN b.spectator_tiles
               => b.spectator_tiles[s].owner = player

\* C23: can_place_spectator_tile(space, player) is true exactly when the
\* space is in 2..16, holds no camel, and neither it nor a neighbouring
\* space holds a tile of another player; place_spectator_tile raises and
\* changes nothing when it is false, and otherwise takes the player's
\* previous tile off the board and puts the new tile on the space.
C23_PlacementRule ==
    [][call'.op = "tile" =>
          LET tiles == board.spectator_tiles
              player == call'.owner
              space == call'.spaces
              kept == {s \in DOMAIN tiles : tiles[s].owner # player}
          IN  /\ \A s \in PlaceSpaces \cup {0, 6}, p \in Players(NumPlayers) :
                     can_place_spectator_tile(board, s, p)
                         <=> CanPlaceAsStated(board, s, p)
              /\ call'.raised <=> ~CanPlaceAsStated(board, space, player)
              /\ call'.raised => board' = board
              /\ ~call'.raised =>
                     /\ board'.camel_positions = board.camel_positions
                     /\ DOMAIN board'.spectator_tiles = kept \cup {space}
                     /\ board'.spectator_tiles[space]
                            = SpectatorTile(player, call'.is_cheering)
                     /\ \A s \in kept \ {space} :
                            board'.spectator_tiles[s] = tiles[s]]_vars

\* a player moved the own tile to the space next to it while another
\* player's tile was on the board
C23_Witness ==
    /\ call.op = "tile"
    /\ ~call.raised
    /\ \E s \in {call.spaces - 1, call.spaces + 1} :
           /\ s \in DOMAIN call.before.spectator_tiles
           /\ call.before.spectator_tiles[s].owner = call.owner
    /\ \E s \in DOMAIN board.spectator_tiles :
           board.spectator_tiles[s].owner # call.owner
    /\ Cardinality(DOMAIN board.spectator_tiles) = 2

\* 1 when the camel of the draw is sent onto a space that holds a tile of
\* player p, else 0
TileHit(p) ==
    LET origin == get_camel_space(state.board.camel_positions, DrawnCamel)
        raw == origin + DrawnDistance
        tiles == state.board.spectator_tiles
    IN  IF raw \in DOMAIN tiles /\ tiles[raw].owner = p THEN 1 ELSE 0

\* C24: in a TAKE_PYRAMID_TICKET transition the owner of the spectator tile
\* on the space the drawn die sends the camel to gains 1 coin from the move,
\* the roller included, and the move gives or takes no other coin: a
\* player's coins change by that coin and by the scoring of a leg or game
\* that the draw closes, and by nothing else.
C24_TileOwnerPaidOne ==
    [][(TurnStep /\ last'.action = PyramidAction /\ ~last'.raised) =>
          \A p \in DOMAIN state.players :
              LET c == state.players[p].coins + TileHit(p)
              IN  state'.players[p].coins
                      = IF GameEnded
                        THEN Max2(0, Max2(0, c + LegScore(p)) + OverallScore(p))
                        ELSE IF LegEnded THEN Max2(0, c + LegScore(p))
                        ELSE c]_vars

\* in the first leg the roller of the grey die holds one coin more than at
\* the start and owns the tile on space 15, which only a crazy camel reaches
C24_Witness ==
    LET roller == (state.current_player + NumSeats - 1) % NumSeats
    IN  /\ state.leg_number = 1
        /\ last.kind = "turn"
        /\ last.action = PyramidAction
        /\ ~last.raised
        /\ last.roll.color = GREY
        /\ 15 \in DOMAIN state.board.spectator_tiles
        /\ state.board.spectator_tiles[15].owner = roller
        /\ state.players[roller].coins = START_COINS + 1

\* the actions C25 lists for the player to move
ActionsAsStated ==
    LET player == state.current_player
        player_state == state.players[player]
    IN  {TicketAction(c) : c \in {d \in RACING_CAMELS :
                                     state.betting.available_tickets[d] # << >>}}
        \cup (IF player_state.has_spectator_tile
              THEN {TileAction(s, k) :
                        s \in {t \in 0..NUM_SPACES :
                                  CanPlaceAsStated(state.board, t, player)},
                        k \in BOOLEAN}
              ELSE {})
        \cup {PyramidAction}
        \cup {WinnerAction(c) : c \in player_state.available_finish_cards}
        \cup {LoserAction(c) : c \in player_state.available_finish_cards}

\* C25: while the game is on, get_legal_actions lists each of the stated
\* actions exactly once and nothing else.
C25_LegalActionsExact ==
    ~state.is_game_over =>
        \E legal_actions \in {get_legal_actions(state)} :
            /\ {legal_actions[i] : i \in DOMAIN legal_actions} = ActionsAsStated
            /\ Len(legal_actions) = Cardinality(ActionsAsStated)

\* the game is on, a ticket stack is empty, and the player to move has the
\* tile out and a finish card spent
C25_Witness ==
    /\ ~state.is_game_over
    /\ \E c \in RACING_CAMELS : state.betting.available_tickets[c] = << >>
    /\ ~state.players[state.current_player].has_spectator_tile
    /\ state.players[state.current_player].available_finish_cards # RACING_CAMELS
    /\ DOMAIN state.board.spectator_tiles # {}

\* the players whose coin total is strictly greater than every other
\* player's
StrictlyRichest ==
    {p \in DOMAIN state.players :
        \A q \in DOMAIN state.players \ {p} :
            state.players[p].coins > state.players[q].coins}

\* C26: get_winner returns None while the game is on; once it is over it
\* returns the player with strictly more coins than every other player, and
\* None when no player has.
C26_WinnerIsStrictMaximum ==
    \E winner \in {get_winner(state)} :
        /\ ~state.is_game_over => winner = None
        /\ state.is_game_over =>
               /\ \A p \in StrictlyRichest : winner = p
               /\ StrictlyRichest = {} => winner = None

\* a three-player game is over, two players share the highest coin total and
\* the third has less
C26_Witness ==
    /\ state.is_game_over
    /\ NumSeats = 3
    /\ StrictlyRichest = {}
    /\ \E p \in DOMAIN state.players :
           \A q \in DOMAIN state.players \ {p} :
               state.players[p].coins < state.players[q].coins

\* the sum of the entries of a sequence of numbers
RECURSIVE SumSeq(_)
SumSeq(s) == IF s = << >> THEN 0 ELSE Head(s) + SumSeq(Tail(s))

RacingOnce(b) ==
    \A c \in RACING_CAMELS : Occurrences(b.camel_positions, c, NUM_SPACES) = 1

\* C27 as stated: on a board that holds each racing camel once the query
\* raises no error, and the ranking tallies of the outcomes counted so far
\* sum to their number for each rank position and for each camel.
C27_RankingTalliesSum ==
    RacingOnce(query.board) =>
        /\ ~tally.raised
        /\ tally.total_outcomes = idx
        /\ \A i \in 1..5 :
               SumSeq([k \in 1..Len(RACING_ORDER) |->
                          tally.ranking_counts[RACING_ORDER[k]][i]])
                   = tally.total_outcomes
        /\ \A c \in RACING_CAMELS :
               SumSeq(tally.ranking_counts[c]) = tally.total_outcomes

RECURSIVE Factorial(_)
Factorial(n) == IF n = 0 THEN 1 ELSE n * Factorial(n - 1)

RECURSIVE Power(_, _)
Power(b, n) == IF n = 0 THEN 1 ELSE b * Power(b, n - 1)

\* C28: enumerate_dice_sequences on N distinct dice returns N! * 3^N
\* pairwise distinct sequences, each an ordering of the N dice with a value
\* of 1..3 per die (the one empty sequence for N = 0); a query that ran to
\* its end counted each of them once, and with the grey die once for each of
\* the 6 grey outcomes at each of the N + 1 positions.
C28_SequencesEnumerated ==
    LET dice == query.remaining_racing_dice
        N == Len(dice)
        seqs == query.racing_sequences
    IN  /\ Len(seqs) = Factorial(N) * Power(3, N)
        /\ \A i, j \in DOMAIN seqs : i # j => seqs[i] # seqs[j]
        /\ \A i \in DOMAIN seqs :
               /\ Len(seqs[i]) = N
               /\ {seqs[i][k][1] : k \in 1..N} = {dice[k] : k \in 1..N}
               /\ \A k \in 1..N : seqs[i][k][2] \in {1, 2, 3}
        /\ N = 0 => seqs = << << >> >>
        /\ (QueryDone /\ ~tally.raised) =>
               tally.total_outcomes
                   = Len(seqs) * (IF query.grey_die_available
                                  THEN 6 * (N + 1) ELSE 1)

\* a query with two undrawn racing dice and the grey die ran to its end
C28_Witness ==
    /\ QueryDone
    /\ ~tally.raised
    /\ Len(query.remaining_racing_dice) = 2
    /\ query.grey_die_available
    /\ tally.total_outcomes = 324

\* C29 as stated: two runs of play_game with the same seed and the same
\* choice rule are in the same state after every turn.
C29_SameSeedSameStates == runs.state[1] = runs.state[2]

\* the query with the undrawn racing dice listed as `dice`
QueryWith(dice) ==
    [query EXCEPT !.remaining_racing_dice = dice,
                  !.racing_sequences = enumerate_dice_sequences(dice)]

\* the outcome that pass i of the loop of calculate_all_probabilities
\* simulates for query q
PassOutcome(q, i) ==
    LET n == Len(q.remaining_racing_dice)
        per == IF q.grey_die_available
               THEN Len(enumerate_grey_die_outcomes) * (n + 1) ELSE 1
        racing_seq == q.racing_sequences[(i \div per) + 1]
        grey_outcome == IF q.grey_die_available
                        THEN enumerate_grey_die_outcomes[
                                 ((i % per) \div (n + 1)) + 1]
                        ELSE NoGrey
        grey_pos == IF q.grey_die_available THEN i % (n + 1) ELSE None
    IN  simulate_sequence_with_grey(q.board, racing_seq, grey_outcome, grey_pos)

\* the counters t after passes lo .. hi - 1 of the loop for query q
RECURSIVE TallyOver(_, _, _, _)
TallyOver(q, t, lo, hi) ==
    IF t.raised \/ lo >= hi THEN t
    ELSE IF hi = lo + 1 THEN RecordOutcome(t, PassOutcome(q, lo))
    ELSE Let1(TallyOver(q, t, lo, (lo + hi) \div 2),
              LAMBDA half : TallyOver(q, half, (lo + hi) \div 2, hi))

\* the counters after the first n passes of the loop for query q
TallyAfter(q, n) == TallyOver(q, NewTally, 0, n)

\* what a call returns: the counters, or nothing but the error
Returned(t) == IF t.raised THEN [raised |-> TRUE] ELSE t

\* the lists that name the undrawn racing dice of the query in some order
Relistings ==
    {d \in QueryDice :
        /\ Len(d) = Len(query.remaining_racing_dice)
        /\ {d[k] : k \in DOMAIN d}
               = {query.remaining_racing_dice[k] :
                      k \in DOMAIN query.remaining_racing_dice}}

QueryOver == QueryDone \/ tally.raised

\* C30: a pass of the loop leaves the board of the query as it was, and when
\* the call is over, a call with the same board and the same undrawn dice
\* listed in any order (the same order included) returns the same counters.
C30_TalliesIgnoreListingOrder ==
    [][/\ query' = query
       /\ QueryOver' =>
              \A d \in Relistings' : \A q \in {QueryWith(d)'} :
                  Returned(TallyAfter(q, NumOutcomes(q))) = Returned(tally')]_vars

\* a query on the start board with two undrawn racing dice and the grey die
\* ran to its end
C30_Witness ==
    /\ QueryDone
    /\ ~tally.raised
    /\ query.board = StartBoard
    /\ Len(query.remaining_racing_dice) = 2
    /\ query.grey_die_available
    /\ tally.game_ends_count = 0
    /\ Cardinality(DOMAIN tally.space_landing_counts) > 3

\* C31: a call of create_new_game with a player count of zero or below
\* raises an error and returns no game state.
C31_NonPositiveCountRejected ==
    (call.op = "create" /\ call.num_players <= 0) =>
        (call.raised /\ state = << >>)

\* the space Board.move_camel computes as the final destination of the call:
\* the raw destination, shifted by a tile lying on it, floored at space 1
FinalDest ==
    LET tile == get_spectator_tile(call.before, RawDest)
    IN  Max2(1, IF tile = NoTile THEN RawDest
                ELSE RawDest + (IF tile.is_cheering THEN 1 ELSE -1))

\* C32: when the final destination of a move is the space the camel already
\* stands on, that space afterwards holds the same camels as before, each
\* exactly once, and every other space is unchanged.
C32_ZeroDisplacementKeepsStack ==
    (call.op = "move" /\ FinalDest = MoveOrigin) =>
        LET before == get_stack_at(call.before, MoveOrigin)
            after == get_stack_at(board, MoveOrigin)
        IN  /\ \A c \in ALL_CAMELS : Count(c, after) = Count(c, before)
            /\ \A c \in ALL_CAMELS : Count(c, after) <= 1
            /\ \A space \in 0..(NUM_SPACES - 1) :
                   space # MoveOrigin =>
                       get_stack_at(board, space) = get_stack_at(call.before, space)

\* the landing tally of space sp in the counters t
LandingTally(t, sp) ==
    IF sp \in DOMAIN t.space_landing_counts THEN t.space_landing_counts[sp]
    ELSE 0

\* C33: the landing tally of a space counts the enumerated outcomes in which
\* at least one camel lands on it: a pass of the loop adds one to the tally of
\* each space some camel landed on in the outcome and nothing to the others,
\* so no tally exceeds the number of outcomes (the reported value is at
\* most 1).
C33_LandingTallyCountsOutcomes ==
    [][~tally'.raised =>
          \A sp \in DOMAIN tally'.space_landing_counts :
              /\ LandingTally(tally', sp) =
                     LandingTally(tally, sp)
                     + (IF InSeq(sp, outcome'.spaces_landed) THEN 1 ELSE 0)
              /\ LandingTally(tally', sp) <= tally'.total_outcomes]_vars

LoopLeft ==
    \/ state.is_game_over
    \/ get_legal_actions(state) = << >>
    \/ last.kind = "memory_error"

\* C35: every game ends: play_game leaves its loop only with a state whose
\* is_game_over is true.
C35_EveryGameEnds == LoopLeft => state.is_game_over

\* what the players can still take in the current leg of gs: the leg tickets
\* on the stacks, the spectator tiles in hand, the finish cards in hand and
\* the dice in the pyramid
RECURSIVE SumOfLens(_, _)
SumOfLens(f, keys) ==
    IF keys = {} THEN 0
    ELSE LET k == CHOOSE x \in keys : TRUE
         IN  Len(f[k]) + SumOfLens(f, keys \ {k})

LegSupply(gs) ==
    SumOfLens(gs.betting.available_tickets, RACING_CAMELS)
    + Cardinality({p \in DOMAIN gs.players : gs.players[p].has_spectator_tile})
    + SumOfLens([p \in DOMAIN gs.players |->
                    [i \in 1..Cardinality(gs.players[p].available_finish_cards)
                        |-> i]],
                DOMAIN gs.players)
    + Cardinality(AvailableDice(gs.pyramid))

\* C36: a leg cannot be prolonged forever: every legal action that ends
\* neither the leg nor the game takes exactly one item from the finite supply
\* of leg tickets, tiles in hand, finish cards and undrawn dice, a draw
\* takes a die, and TAKE_PYRAMID_TICKET is legal in every state that is not
\* terminal, so a leg lasts no longer than its supply.
C36_LegSupplyRunsOut ==
    [][TurnStep =>
          /\ (~LegEnded /\ ~GameEnded) =>
                 /\ LegSupply(state') = LegSupply(state) - 1
                 /\ LegSupply(state') >= 1
          /\ last'.action = PyramidAction =>
                 (LegEnded \/ GameEnded
                  \/ Cardinality(AvailableDice(state'.pyramid))
                         = Cardinality(AvailableDice(state.pyramid)) - 1)
          /\ ~state'.is_game_over =>
                 InSeq(PyramidAction, get_legal_actions(state'))]_vars

\* the second leg began by a draw after a first leg of at least nine actions
C36_Witness ==
    /\ state.leg_number = 2
    /\ DrawsSoFar(state) = 5
    /\ history >= 9
    /\ last.kind = "turn" /\ last.action = PyramidAction
    /\ ~state.is_game_over

\* ---- the replay of the sequence that the last pass of the loop simulated ----
\* the arguments of the simulate_sequence_with_grey call of pass i
PassArguments(q, i) ==
    LET n == Len(q.remaining_racing_dice)
        per == IF q.grey_die_available
               THEN Len(enumerate_grey_die_outcomes) * (n + 1) ELSE 1
    IN  [racing_sequence |-> q.racing_sequences[(i \div per) + 1],
         grey_outcome |-> IF q.grey_die_available
                          THEN enumerate_grey_die_outcomes[
                                   ((i % per) \div (n + 1)) + 1]
                          ELSE NoGrey,
         grey_position |-> IF q.grey_die_available THEN i % (n + 1) ELSE None]

\* the board after the first k dice of the sequence, every one applied
RECURSIVE BoardAfterDice(_, _, _)
BoardAfterDice(b, a, k) ==
    IF k = 0
    THEN [board |-> b, racing_idx |-> 0, spaces_landed |-> << >>,
          game_finished |-> FALSE, applied |-> 0]
    ELSE Let1(BoardAfterDice(b, a, k - 1),
              LAMBDA sim : SimRoll(sim, a.racing_sequence, a.grey_outcome,
                                   a.grey_position, k - 1))

\* a racing camel stands on space 17 or beyond
RacingPastFinishLine(b) ==
    \E space \in FINISH_LINE..(Len(b.camel_positions) - 1) :
        \E c \in RACING_CAMELS : InSeq(c, get_stack_at(b, space))

OwnsTileOnBoard(gs, p) ==
    \E s \in DOMAIN gs.board.spectator_tiles :
        gs.board.spectator_tiles[s].owner = p

\* the legal actions of gs offer a tile placement
TileOffered(gs) ==
    \E i \in DOMAIN get_legal_actions(gs) :
        get_legal_actions(gs)[i].action_type = PLACE_SPECTATOR_TILE

\* C38: a player's has_spectator_tile flag is false exactly when a tile of
\* that player is on the board; the player to move is offered tile
\* placements only while holding the tile, so at most once per leg, and after
\* a leg end every player holds the tile again and the player to move is
\* offered placements.
C38_TileFlagMatchesBoard ==
    [][TurnStep =>
          /\ \A p \in DOMAIN state'.players :
                 ~state'.players[p].has_spectator_tile
                     <=> OwnsTileOnBoard(state', p)
          /\ TileOffered(state') =>
                 state'.players[state'.current_player].has_spectator_tile
          /\ last'.action.action_type = PLACE_SPECTATOR_TILE =>
                 /\ TileOffered(state)
                 /\ ~state'.players[state.current_player].has_spectator_tile
          /\ LegEnded =>
                 /\ \A p \in DOMAIN state'.players :
                        state'.players[p].has_spectator_tile
                 /\ TileOffered(state')]_vars

\* two players placed three tiles in all and one tile lies on the board in
\* the second leg: its owner placed a tile in both legs
C38_Witness ==
    /\ state.leg_number = 2
    /\ Cardinality(DOMAIN state.players) = 2
    /\ Extras = 3
    /\ Cardinality(DOMAIN state.board.spectator_tiles) = 1
    /\ \E p \in DOMAIN state.players :
           /\ OwnsTileOnBoard(state, p)
           /\ ~state.players[p].has_spectator_tile

\* ---------------------------------------------------------------------------
\* the pyramid tickets held by all players together
RECURSIVE PyramidTicketsHeld(_, _)
PyramidTicketsHeld(betting, players) ==
    IF players = {} THEN 0
    ELSE LET p == CHOOSE x \in players : TRUE
         IN betting.player_pyramid_tickets[p]
                + PyramidTicketsHeld(betting, players \ {p})

PyramidTicketSum(gs) ==
    PyramidTicketsHeld(gs.betting, DOMAIN gs.betting.player_pyramid_tickets)

DrawnThisLeg(gs) == 6 - Cardinality(AvailableDice(gs.pyramid))

TicketsMatchDice(gs) ==
    /\ PyramidTicketSum(gs) = DrawnThisLeg(gs)
    /\ PyramidTicketSum(gs) <= 5
    /\ ~gs.is_game_over =>
           ((gs.last_pyramid_ticket_player = None) <=> (PyramidTicketSum(gs) = 0))

\* C39: in every reachable state the pyramid tickets of all players add up to
\* the number of dice drawn so far in the current leg (6 minus the undrawn
\* dice, grey included); the sum is 0 when a leg starts and never exceeds 5,
\* and in a state that is not terminal last_pyramid_ticket_player is empty
\* exactly when the sum is 0
C39_PyramidTicketsCountDraws ==
    [][/\ TicketsMatchDice(state)
       /\ TicketsMatchDice(state')
       /\ (TurnStep /\ LegEnded) =>
              /\ PyramidTicketSum(state') = 0
              /\ DrawnThisLeg(state') = 0
              /\ state'.last_pyramid_ticket_player = None
       /\ (TurnStep /\ last'.action = PyramidAction /\ ~LegEnded) =>
              /\ PyramidTicketSum(state') = PyramidTicketSum(state) + 1
              /\ state'.last_pyramid_ticket_player = state.current_player
       /\ (TurnStep /\ last'.action # PyramidAction) =>
              /\ PyramidTicketSum(state') = PyramidTicketSum(state)
              /\ state'.last_pyramid_ticket_player
                     = state.last_pyramid_ticket_player]_vars

C39_Witness ==
    /\ state.leg_number = 2
    /\ ~state.is_game_over
    /\ PyramidTicketSum(state) = 4
    /\ \E p, q \in DOMAIN state.betting.player_pyramid_tickets :
           /\ p # q
           /\ state.betting.player_pyramid_tickets[p] > 0
           /\ state.betting.player_pyramid_tickets[q] > 0
    /\ state.last_pyramid_ticket_player # None

====
